---- MODULE Spec2Model ----
(***************************************************************************)
(* Model of the Bayesian model-combination layer of the sports-betting     *)
(* repository: class ModelCombination of combine_forecasts.py              *)
(* (get_timepoint_weights, combine_forecasts) over a weights table as      *)
(* estimate_weights.py persists it, and of estimate_weights.py itself:     *)
(* preprocess_outcome_data, estimate_combination_weights and the bucket    *)
(* loop of its main part, for one league.                                  *)
(*                                                                         *)
(* Numbers are exact rationals <<n, d>> in lowest terms with d > 0.  The   *)
(* one non-number the code can produce on simplex draws is the IEEE NaN    *)
(* of 0/0, modelled as <<0, 0>>: it propagates through + * / and every     *)
(* ordered comparison with it is false, as in numpy.  Rounding of binary   *)
(* floating point is not modelled.                                         *)
(***************************************************************************)
EXTENDS Integers, Sequences, FiniteSets, TLC

VARIABLES
    timepoints,      \* self.timepoints: sorted anchor times
    models,          \* self.models: forecaster names, column order of the table
    posterior_dist,  \* self.posterior_dist: per anchor, the sequence of draws
    call,            \* the last combine_forecasts call: its inputs, locals and result
    outcome_df,      \* estimate_weights.py: the historical observations of the league
    prep,            \* the last preprocess_outcome_data call: its inputs and result
    pc,              \* where the main part of estimate_weights.py stands
    t_lower,         \* the lower edge of the bucket the loop is at
    weights_df_list, \* the per-bucket tables of draws collected so far
    weights_df,      \* the persisted weights table
    queries,         \* combine_forecasts calls in progress on one object, per thread
    live,            \* the main part of combine_forecasts.py: its position and tables
    scrape           \* scrape_NCAAMB_scores: its position, locals and collected scores

vars == <<timepoints, models, posterior_dist, call,
          outcome_df, prep, pc, t_lower, weights_df_list, weights_df,
          queries, live, scrape>>

\* the state of the combination object
qvars == <<timepoints, models, posterior_dist, call>>

\* the state of the estimation script
estvars == <<outcome_df, prep, pc, t_lower, weights_df_list, weights_df>>

\* the state of the concurrent queries, the live script and the scraper
auxvars == <<queries, live, scrape>>

NoPrep == [op |-> "none"]

NoTable == [saved |-> FALSE]

NoQueries == <<>>

NoLive == [pc |-> "none"]

NoScrape == [pc |-> "none"]

\* no concurrent query, live script or scraper is part of the run
AuxIdle ==
    /\ queries = NoQueries
    /\ live = NoLive
    /\ scrape = NoScrape

\* the estimation script is not part of the run
EstIdle ==
    /\ outcome_df = <<>>
    /\ prep = NoPrep
    /\ pc = "idle"
    /\ t_lower = 0
    /\ weights_df_list = <<>>
    /\ weights_df = NoTable

(***************************************************************************)
(* Bounds of the model.                                                    *)
(***************************************************************************)
\* largest number of posterior draws held for one anchor
MaxDraws == 2

\* largest number of posterior draws a weights table holds over all anchors
MaxPooled == 4

(***************************************************************************)
(* Rational arithmetic with NaN.                                           *)
(***************************************************************************)
Abs(n) == IF n < 0 THEN -n ELSE n

RECURSIVE GCD(_, _)
GCD(a, b) == IF b = 0 THEN a ELSE GCD(b, a % b)

NaN == <<0, 0>>

IsNaN(x) == x[2] = 0

\* the rational n/d (d # 0) in lowest terms, sign carried by the numerator
Rat(n, d) ==
    LET g == GCD(Abs(n), Abs(d))
        s == IF d < 0 THEN -1 ELSE 1
    IN  <<s * (n \div g), s * (d \div g)>>

Int2Rat(n) == <<n, 1>>

Zero == <<0, 1>>

One == <<1, 1>>

Add(x, y) ==
    IF IsNaN(x) \/ IsNaN(y) THEN NaN
    ELSE Rat(x[1] * y[2] + y[1] * x[2], x[2] * y[2])

Sub(x, y) ==
    IF IsNaN(x) \/ IsNaN(y) THEN NaN
    ELSE Rat(x[1] * y[2] - y[1] * x[2], x[2] * y[2])

Mul(x, y) ==
    IF IsNaN(x) \/ IsNaN(y) THEN NaN
    ELSE Rat(x[1] * y[1], x[2] * y[2])

\* x / y as numpy divides: 0/0 is NaN.  The draws are nonnegative, so a zero
\* denominator of the code always comes with a zero numerator.
Div(x, y) ==
    IF IsNaN(x) \/ IsNaN(y) \/ y[1] = 0 THEN NaN
    ELSE Rat(x[1] * y[2], x[2] * y[1])

\* ordered comparisons: false as soon as one side is NaN
Lt(x, y) == ~IsNaN(x) /\ ~IsNaN(y) /\ x[1] * y[2] < y[1] * x[2]

Le(x, y) == ~IsNaN(x) /\ ~IsNaN(y) /\ x[1] * y[2] <= y[1] * x[2]

\* np.floor and np.ceil of a rational, as integers
Floor(x) == IF x[1] >= 0 THEN x[1] \div x[2] ELSE -((-x[1] + x[2] - 1) \div x[2])

Ceil(x) == -Floor(<<-x[1], x[2]>>)

RatMin(x, y) == IF Lt(y, x) THEN y ELSE x

RatMax(x, y) == IF Lt(x, y) THEN y ELSE x

RECURSIVE SumSeq(_)
\* np.sum of a sequence of numbers
SumSeq(s) == IF s = <<>> THEN Zero ELSE Add(s[1], SumSeq(Tail(s)))

RECURSIVE CumSum(_)
\* np.cumsum of a sequence of numbers
CumSum(s) ==
    IF s = <<>> THEN <<>>
    ELSE LET front == CumSum(SubSeq(s, 1, Len(s) - 1))
         IN  Append(front, IF front = <<>> THEN s[Len(s)]
                           ELSE Add(front[Len(front)], s[Len(s)]))

(***************************************************************************)
(* ModelCombination.__init__: the interpolation function.                  *)
(***************************************************************************)
\* np.searchsorted(x, t), side 'left': how many entries of x are below t
searchsorted(x, t) == Cardinality({i \in 1..Len(x) : x[i] < t})

Clip(n, lo, hi) == IF n < lo THEN lo ELSE IF n > hi THEN hi ELSE n

\* linear_interp: interp1d(timepoints, arange(K), 'linear', fill_value =
\* 'extrapolate') evaluated at t (scipy's _call_linear, indices from 0)
linear_interp(tp, t) ==
    LET hi    == Clip(searchsorted(tp, t), 1, Len(tp) - 1)
        lo    == hi - 1
        x_lo  == tp[lo + 1]
        x_hi  == tp[hi + 1]
        slope == Div(Int2Rat(hi - lo), Int2Rat(x_hi - x_lo))
    IN  Add(Mul(slope, Int2Rat(t - x_lo)), Int2Rat(lo))

\* interp_func with minimum and maximum exchanged in the clamp
interp_func_swapped_clamp(tp, t) ==
    RatMin(RatMax(linear_interp(tp, t), Int2Rat(Len(tp) - 1)), Int2Rat(0))

\* self.interp_func: linear_interp clamped into [y.min(), y.max()] = [0, K-1]
interp_func(tp, t) ==
    RatMax(RatMin(linear_interp(tp, t), Int2Rat(Len(tp) - 1)), Int2Rat(0))

(***************************************************************************)
(* ModelCombination.get_timepoint_weights                                  *)
(***************************************************************************)
\* get_timepoint_weights taking the right anchor as the one after the left
\* (floor + 1, kept inside the table) instead of the ceiling
get_timepoint_weights_next_anchor(tp, t) ==
    LET it  == interp_func(tp, t)
        it1 == Floor(it)
        it2 == IF it1 + 1 > Len(tp) - 1 THEN Len(tp) - 1 ELSE it1 + 1
        t1  == tp[it1 + 1]
        t2  == tp[it2 + 1]
        wt2 == IF it1 = it2 THEN Zero ELSE Div(Int2Rat(t - t1), Int2Rat(t2 - t1))
        wt1 == IF it1 = it2 THEN One ELSE Sub(One, wt2)
    IN  [it1 |-> it1, it2 |-> it2, wt1 |-> wt1, wt2 |-> wt2]

\* get_timepoint_weights measuring the right weight from the right anchor
get_timepoint_weights_swapped(tp, t) ==
    LET it  == interp_func(tp, t)
        it1 == Floor(it)
        it2 == Ceil(it)
        t1  == tp[it1 + 1]
        t2  == tp[it2 + 1]
        wt2 == IF it1 = it2 THEN Zero ELSE Div(Int2Rat(t2 - t), Int2Rat(t2 - t1))
        wt1 == IF it1 = it2 THEN One ELSE Sub(One, wt2)
    IN  [it1 |-> it1, it2 |-> it2, wt1 |-> wt1, wt2 |-> wt2]

get_timepoint_weights(tp, t) ==
    LET it  == interp_func(tp, t)
        it1 == Floor(it)
        it2 == Ceil(it)
        t1  == tp[it1 + 1]
        t2  == tp[it2 + 1]
        wt2 == IF it1 = it2 THEN Zero ELSE Div(Int2Rat(t - t1), Int2Rat(t2 - t1))
        wt1 == IF it1 = it2 THEN One ELSE Sub(One, wt2)
    IN  [it1 |-> it1, it2 |-> it2, wt1 |-> wt1, wt2 |-> wt2]

(***************************************************************************)
(* ModelCombination.combine_forecasts                                      *)
(***************************************************************************)
\* self.models.index(name) for a name that is in self.models (from 1 here)
model_index(mdl, name) == CHOOSE j \in 1..Len(mdl) :
                              mdl[j] = name /\ \A i \in 1..(j - 1) : mdl[i] # name

\* f: the value forecast by each model, 0 where the map has no such key
quote_f(mdl, f_dict) ==
    [j \in 1..Len(mdl) |->
        IF mdl[j] \in DOMAIN f_dict /\ model_index(mdl, mdl[j]) = j
        THEN f_dict[mdl[j]] ELSE Zero]

\* quote_v when a key that is no model is located at index -1, the last column
quote_v_unknown_last(mdl, f_dict) ==
    [j \in 1..Len(mdl) |->
        IF \/ mdl[j] \in DOMAIN f_dict /\ model_index(mdl, mdl[j]) = j
           \/ j = Len(mdl) /\ \E n \in DOMAIN f_dict : \A i \in 1..Len(mdl) : mdl[i] # n
        THEN One ELSE Zero]

\* v: 1 for the models whose forecast is in the map, else 0
quote_v(mdl, f_dict) ==
    [j \in 1..Len(mdl) |->
        IF mdl[j] \in DOMAIN f_dict /\ model_index(mdl, mdl[j]) = j
        THEN One ELSE Zero]

\* f_bar_t_dist without the posterior weights: the plain mean of the quotes
f_bar_t_dist_unweighted(w_dist, v, f) ==
    [d \in 1..Len(w_dist) |->
        Div(SumSeq([j \in 1..Len(v) |-> Mul(v[j], f[j])]),
            SumSeq([j \in 1..Len(v) |-> v[j]]))]

\* np.sum(w_dist*v*f,axis=1)/np.sum(w_dist*v,axis=1): one value per draw
f_bar_t_dist(w_dist, v, f) ==
    [d \in 1..Len(w_dist) |->
        Div(SumSeq([j \in 1..Len(v) |-> Mul(Mul(w_dist[d][j], v[j]), f[j])]),
            SumSeq([j \in 1..Len(v) |-> Mul(w_dist[d][j], v[j])]))]

\* the sample weights without the division by the draw count
t_sample_weights_undivided(wt, n) == [d \in 1..n |-> Mul(wt, One)]

\* wt*np.ones(n)/n
t_sample_weights(wt, n) == [d \in 1..n |-> Div(Mul(wt, One), Int2Rat(n))]

\* np.argsort orders NaN after every number
SortLe(x, y) == IsNaN(y) \/ Le(x, y)

RECURSIVE ArgSortsOf(_, _, _)
ArgSortsOf(a, m, S) ==
    IF S = {} THEN {<<>>}
    ELSE UNION {{<<i>> \o p : p \in ArgSortsOf(a, m, S \ {i})} :
                  i \in {i \in S : /\ \A j \in S : SortLe(a[i], a[j])
                                   /\ \A j \in S : j < i => ~(a[j] = a[i] /\ m[j] = m[i])}}

\* np.argsort(a) with the default (unstable) sort: any index order that puts
\* a ascending; which of several tied entries comes first is not specified.
\* m are the masses that are reordered with a: of the orders that differ only
\* in entries equal in value and in mass, which give the same sorted arrays,
\* the one keeping those entries in index order is listed.
ArgSorts(a, m) == ArgSortsOf(a, m, 1..Len(a))

\* a[inds]
Take(a, inds) == [i \in 1..Len(inds) |-> a[inds[i]]]

\* np.interp(q, xp, fp) for xp[1] <= q <= xp[Len(xp)], xp nondecreasing: j is
\* the last index with xp[j] <= q, so xp[j] < xp[j+1] where the slope is taken.
\* (numpy recomputes a NaN result from the right end of the segment; a NaN
\* here comes from a NaN in fp and stays NaN.)
np_interp(q, xp, fp) ==
    LET j == CHOOSE i \in 1..Len(xp) :
                 Le(xp[i], q) /\ \A k \in (i + 1)..Len(xp) : Lt(q, xp[k])
    IN  IF j = Len(xp) \/ xp[j] = q THEN fp[j]
        ELSE LET slope == Div(Sub(fp[j + 1], fp[j]), Sub(xp[j + 1], xp[j]))
                 res   == Add(Mul(slope, Sub(q, xp[j])), fp[j])
             IN  res

\* PPF_func with the two fill values exchanged
PPF_func_swapped_fill(CDF_vals, f_bar_dist, q) ==
    IF Lt(q, CDF_vals[1]) THEN f_bar_dist[Len(f_bar_dist)]
    ELSE IF Lt(CDF_vals[Len(CDF_vals)], q) THEN f_bar_dist[1]
    ELSE np_interp(q, CDF_vals, f_bar_dist)

\* PPF_func(q): interp1d(CDF_vals, f_bar_dist, 'linear', bounds_error=False,
\* fill_value=(f_bar_dist[0], f_bar_dist[-1])) evaluated at q
PPF_func(CDF_vals, f_bar_dist, q) ==
    IF Lt(q, CDF_vals[1]) THEN f_bar_dist[1]
    ELSE IF Lt(CDF_vals[Len(CDF_vals)], q) THEN f_bar_dist[Len(f_bar_dist)]
    ELSE np_interp(q, CDF_vals, f_bar_dist)

\* np.average(a, weights=w)
np_average(a, w) ==
    Div(SumSeq([i \in 1..Len(a) |-> Mul(a[i], w[i])]), SumSeq(w))

\* lines 74-104: the pooled samples and their masses before sorting
pooled(tp, mdl, post, f_dict, t) ==
    LET f   == quote_f(mdl, f_dict)
        v   == quote_v(mdl, f_dict)
        loc == get_timepoint_weights(tp, t)
        w1_dist == post[loc.it1 + 1]
        w2_dist == post[loc.it2 + 1]
        num_t1_samples == Len(w1_dist)
        num_t2_samples == Len(w2_dist)
    IN  [f |-> f, v |-> v,
         it1 |-> loc.it1, it2 |-> loc.it2, wt1 |-> loc.wt1, wt2 |-> loc.wt2,
         num_t1_samples |-> num_t1_samples, num_t2_samples |-> num_t2_samples,
         f_bar_dist |-> f_bar_t_dist(w1_dist, v, f) \o f_bar_t_dist(w2_dist, v, f),
         sample_weights |-> t_sample_weights(loc.wt1, num_t1_samples)
                            \o t_sample_weights(loc.wt2, num_t2_samples)]

\* lines 106-124, for the argsort result sort_inds: the sorted samples, the
\* weighted CDF, the point estimate and the credible interval
combine_sorted(p, alpha, sort_inds) ==
    LET f_bar_dist     == Take(p.f_bar_dist, sort_inds)
        sample_weights == Take(p.sample_weights, sort_inds)
        total          == SumSeq(sample_weights)
        cum            == CumSum(sample_weights)
        CDF_vals       == [i \in 1..Len(cum) |-> Div(cum[i], total)]
        half           == Div(alpha, Int2Rat(2))
    IN  [f_bar_dist |-> f_bar_dist, sample_weights |-> sample_weights,
         CDF_vals |-> CDF_vals,
         f_bar |-> np_average(f_bar_dist, sample_weights),
         LB |-> PPF_func(CDF_vals, f_bar_dist, half),
         UB |-> PPF_func(CDF_vals, f_bar_dist, Sub(One, half))]

\* combine_forecasts(f_dict, t, alpha) when argsort returns sort_inds
combine_forecasts(tp, mdl, post, f_dict, t, alpha, sort_inds) ==
    combine_sorted(pooled(tp, mdl, post, f_dict, t), alpha, sort_inds)

(***************************************************************************)
(* The weights tables and the queries of the model.                        *)
(***************************************************************************)
\* the forecaster columns of the weights table
ModelNames == <<"A", "B">>

\* keys a quote map may hold: the two forecasters and a name the table lacks
QuoteNames == {"A", "B", "X"}

\* posterior draws: points of the simplex, one interior and one vertex (the
\* vertex is a draw of a bucket where forecaster A was absent from training
\* and its column was filled with 0)
WeightGrid == << <<Rat(1, 2), Rat(1, 2)>>, <<Rat(0, 1), Rat(1, 1)>> >>

\* the ensembles of one anchor: 1..MaxDraws draws of the grid
Ensembles ==
    UNION {{[d \in 1..n |-> WeightGrid[ix[d]]] :
              ix \in {ix \in [1..n -> 1..Len(WeightGrid)] :
                        \A d \in 1..(n - 1) : ix[d] <= ix[d + 1]}} :
           n \in 1..MaxDraws}

\* the anchor times of a table, ascending
AnchorChoices == {<<-6, -2>>}

\* query times: from below the first anchor to above the last
QueryTimes(tp) == (tp[1] - 1)..(tp[Len(tp)] + 1)

\* what each name quotes when it is in the map
Quote == [n \in QuoteNames |->
             IF n = "A" THEN Rat(1, 4) ELSE IF n = "B" THEN Rat(1, 1) ELSE Rat(1, 2)]

\* the quote maps: every subset of the names, the empty map included
QuoteMaps == {[n \in S |-> Quote[n]] : S \in SUBSET QuoteNames}

\* significance levels: the default 0.05 of combine_forecasts, and 0.5
Alphas == {Rat(1, 20), Rat(1, 2)}

NoCall == [op |-> "none"]

\* the number of draws of all ensembles together
RECURSIVE TotalDraws(_)
TotalDraws(post) == IF post = <<>> THEN 0 ELSE Len(post[1]) + TotalDraws(Tail(post))

(***************************************************************************)
(* The state machine: a constructed ModelCombination and its queries.      *)
(***************************************************************************)
\* ModelCombination.__init__(weight_df): anchors sorted, one ensemble each
Init ==
    /\ timepoints \in AnchorChoices
    /\ models = ModelNames
    /\ posterior_dist \in {post \in [1..Len(timepoints) -> Ensembles] :
                              TotalDraws(post) <= MaxPooled}
    /\ call = NoCall
    /\ EstIdle
    /\ AuxIdle

\* a call of get_timepoint_weights(t); calls are made one after the other
GetTimepointWeights(t) ==
    /\ call = NoCall
    /\ call' = [op |-> "get_timepoint_weights", t |-> t,
                loc |-> get_timepoint_weights(timepoints, t)]
    /\ UNCHANGED <<timepoints, models, posterior_dist>>
    /\ UNCHANGED estvars
    /\ UNCHANGED auxvars

\* a call of combine_forecasts(f_dict, t, alpha).  The method has no raise
\* statement and numpy divides 0/0 to NaN with a warning, so every call
\* returns (f_bar, bounds): the outcome is always "returned".
CombineForecasts(f_dict, t, alpha) ==
    /\ call = NoCall
    /\ LET p == pooled(timepoints, models, posterior_dist, f_dict, t)
       IN  \E sort_inds \in ArgSorts(p.f_bar_dist, p.sample_weights) :
            /\ call' = [op |-> "combine_forecasts", f_dict |-> f_dict, t |-> t,
                        alpha |-> alpha, pooled |-> p, sort_inds |-> sort_inds,
                        outcome |-> "returned",
                        res |-> combine_sorted(p, alpha, sort_inds)]
            /\ UNCHANGED <<timepoints, models, posterior_dist>>
            /\ UNCHANGED estvars
    /\ UNCHANGED auxvars

\* the caller has taken the result of the last call
Return ==
    /\ call # NoCall
    /\ call' = NoCall
    /\ UNCHANGED <<timepoints, models, posterior_dist>>
    /\ UNCHANGED estvars
    /\ UNCHANGED auxvars

Next ==
    \/ Return
    \/ \E t \in QueryTimes(timepoints) : GetTimepointWeights(t)
    \/ \E f_dict \in QuoteMaps, t \in QueryTimes(timepoints), alpha \in Alphas :
           CombineForecasts(f_dict, t, alpha)

Spec == Init /\ [][Next]_vars

(***************************************************************************)
(* A second specification for the time location alone: tables over every   *)
(* choice of 2..MaxAnchors anchors on a grid of times, one draw each.      *)
(***************************************************************************)
\* most anchors of a table
MaxAnchors == 3

\* the anchors lie in -MaxLead..0
MaxLead == 6

LocateAnchorChoices ==
    {tp \in UNION {[1..n -> (-MaxLead)..0] : n \in 2..MaxAnchors} :
        \A k \in 1..(Len(tp) - 1) : tp[k] < tp[k + 1]}

InitLocate ==
    /\ timepoints \in LocateAnchorChoices
    /\ models = ModelNames
    /\ posterior_dist = [k \in 1..Len(timepoints) |-> <<WeightGrid[1]>>]
    /\ call = NoCall
    /\ EstIdle
    /\ AuxIdle

NextLocate ==
    \/ Return
    \/ \E t \in QueryTimes(timepoints) : GetTimepointWeights(t)

SpecLocate == InitLocate /\ [][NextLocate]_vars

(***************************************************************************)
(* A third specification: the worked example of the two-anchor table, with *)
(* five identical draws at each anchor, queried at every time with both    *)
(* forecasters quoted.                                                     *)
(***************************************************************************)
\* an ensemble of five copies of the draw w
FiveDraws(w) == [d \in 1..5 |-> w]

\* the ensembles of the anchors -6 and -2
ScenarioPosterior ==
    << FiveDraws(<<Rat(2, 5), Rat(3, 5)>>), FiveDraws(<<Rat(7, 10), Rat(3, 10)>>) >>

\* the quotes of the example: A = 0.6 and B = 0.8 (and an unknown name)
ScenarioQuote == [n \in QuoteNames |->
                     IF n = "A" THEN Rat(3, 5) ELSE IF n = "B" THEN Rat(4, 5) ELSE Rat(1, 2)]

\* the quote maps of the example: both forecasters, with or without the
\* unknown name
ScenarioQuoteMaps ==
    {[n \in S |-> ScenarioQuote[n]] : S \in {S \in SUBSET QuoteNames : {"A", "B"} \subseteq S}}

InitScenario ==
    /\ timepoints = <<-6, -2>>
    /\ models = ModelNames
    /\ posterior_dist = ScenarioPosterior
    /\ call = NoCall
    /\ EstIdle
    /\ AuxIdle

NextScenario ==
    \/ Return
    \/ \E t \in QueryTimes(timepoints) : GetTimepointWeights(t)
    \/ \E f_dict \in ScenarioQuoteMaps, t \in QueryTimes(timepoints), alpha \in Alphas :
           CombineForecasts(f_dict, t, alpha)

SpecScenario == InitScenario /\ [][NextScenario]_vars

(***************************************************************************)
(* estimate_weights.py: the historical observations.  A row of outcome_df  *)
(* is one quote of a sportsbook for a game, seen `lead` hours before the   *)
(* start of the game (observation_datetime = game_datetime - lead, on the  *)
(* ten-minute grid of line 30).                                            *)
(***************************************************************************)
\* sportsbooks: the forecasters the estimation considers, in column order
sportsbooks == <<"A", "B", "C">>

\* the day of each game of the league (game_date)
GameDate == <<1, 2, 2, 2>>

\* the start of each game in hours (game_datetime)
GameDatetime == <<43, 66, 68, 68>>

\* the home team of each game, as its rank in the order of the names; games
\* 3 and 4 start at the same time with the same home_team and differ in
\* away_team
HomeTeam == <<1, 2, 3, 3>>

\* moneyline_home_outcome of each game
GameOutcome == <<1, 0, 1, 0>>

Obs(g, book, lead, p) ==
    [game |-> g, sportsbook_name |-> book, lead |-> lead,
     moneyline_home_prob |-> p, moneyline_home_outcome |-> GameOutcome[g]]

\* the observations a table may hold, in file order: game 1 seen 3 hours
\* ahead by A (twice, with different values), B and C and 4 hours ahead by A
\* and B; game 2 seen 3 and 6 hours ahead by A and B; game 3 seen 6 hours
\* ahead by B and C
ObsUniverse ==
    << Obs(1, "A", 3, Rat(1, 4)), Obs(1, "A", 3, Rat(3, 4)), Obs(1, "B", 3, Rat(1, 2)),
       Obs(1, "C", 3, Rat(1, 2)), Obs(1, "A", 4, Rat(1, 4)), Obs(1, "B", 4, Rat(1, 2)),
       Obs(2, "A", 3, Rat(3, 4)), Obs(2, "B", 3, Rat(1, 4)), Obs(2, "A", 6, Rat(1, 2)),
       Obs(2, "B", 6, Rat(1, 4)), Obs(3, "B", 6, Rat(3, 4)), Obs(3, "C", 6, Rat(1, 2)) >>

\* the k-th smallest member of a set of integers
Nth(S, k) == CHOOSE x \in S : Cardinality({y \in S : y <= x}) = k

\* the members of a set of integers in ascending order
Ascending(S) == [k \in 1..Cardinality(S) |-> Nth(S, k)]

\* the table holding the rows of the universe whose positions are in S
TableOf(S) == [k \in 1..Cardinality(S) |-> ObsUniverse[Nth(S, k)]]

\* every table over the universe
OutcomeTables == {TableOf(S) : S \in SUBSET (1..Len(ObsUniverse))}

(***************************************************************************)
(* preprocess_outcome_data(outcome_df, hours_before, n_games, sportsbooks) *)
(***************************************************************************)
\* line 25: the distinct games of the table sorted by game_date (games of
\* one date in any order), as the sequence of their dates
RECURSIVE SortedDates(_)
SortedDates(G) ==
    IF G = {} THEN <<>>
    ELSE LET g == CHOOSE g \in G : \A h \in G : GameDate[g] <= GameDate[h]
         IN  <<GameDate[g]>> \o SortedDates(G \ {g})

recent_games(df) == SortedDates({df[i].game : i \in 1..Len(df)})

\* line 26: the smallest date among the last n_games rows of recent_games
cutoff_date(df, n_games) ==
    LET rg   == recent_games(df)
        from == IF n_games >= Len(rg) THEN 1 ELSE Len(rg) - n_games + 1
    IN  rg[from]

\* line 27: the rows whose game_date is at or after the cutoff
lookback(df, n_games) ==
    IF df = <<>> THEN <<>>
    ELSE SelectSeq(df, LAMBDA r : GameDate[r.game] >= cutoff_date(df, n_games))

\* line 34: hours from the start of the game to the observation (negative)
hours_remaining(r) == -r.lead

\* the window closed at the near end and open at the far end: lo <= lead < hi
in_window_closed_low(r, hours_before) ==
    LET hi == IF hours_before[1] >= hours_before[2] THEN hours_before[1] ELSE hours_before[2]
        lo == IF hours_before[1] >= hours_before[2] THEN hours_before[2] ELSE hours_before[1]
    IN  hours_remaining(r) > -hi /\ hours_remaining(r) <= -lo

\* the window closed at both ends: lo <= lead <= hi
in_window_closed(r, hours_before) ==
    LET hi == IF hours_before[1] >= hours_before[2] THEN hours_before[1] ELSE hours_before[2]
        lo == IF hours_before[1] >= hours_before[2] THEN hours_before[2] ELSE hours_before[1]
    IN  hours_remaining(r) >= -hi /\ hours_remaining(r) <= -lo

\* lines 33-36: hours_before sorted descending, then
\* hours_remaining >= -hours_before[0] and hours_remaining < -hours_before[1]
in_window(r, hours_before) ==
    LET hi == IF hours_before[1] >= hours_before[2] THEN hours_before[1] ELSE hours_before[2]
        lo == IF hours_before[1] >= hours_before[2] THEN hours_before[2] ELSE hours_before[1]
    IN  hours_remaining(r) >= -hi /\ hours_remaining(r) < -lo

\* line 40: sportsbooks.index(name), from 0
sportsbook_index(name) == (CHOOSE j \in 1..Len(sportsbooks) : sportsbooks[j] = name) - 1

\* lines 36-40: the rows of the window from the listed sportsbooks
window_rows(df, hours_before) ==
    SelectSeq(df, LAMBDA r : /\ in_window(r, hours_before)
                             /\ \E j \in 1..Len(sportsbooks) : sportsbooks[j] = r.sportsbook_name)

\* the order of line 41: by game_datetime, home_team, sportsbook_index
SortKeyLe(r1, r2) ==
    LET k1 == <<GameDatetime[r1.game], HomeTeam[r1.game], sportsbook_index(r1.sportsbook_name)>>
        k2 == <<GameDatetime[r2.game], HomeTeam[r2.game], sportsbook_index(r2.sportsbook_name)>>
    IN  \/ k1[1] < k2[1]
        \/ k1[1] = k2[1] /\ k1[2] < k2[2]
        \/ k1[1] = k2[1] /\ k1[2] = k2[2] /\ k1[3] <= k2[3]

\* line 41: sort_values on several columns, a stable sort
RECURSIVE sort_values(_)
sort_values(df) ==
    IF df = <<>> THEN <<>>
    ELSE LET front == sort_values(SubSeq(df, 1, Len(df) - 1))
             r     == df[Len(df)]
             pos   == Cardinality({i \in 1..Len(front) : SortKeyLe(front[i], r)})
         IN  SubSeq(front, 1, pos) \o <<r>> \o SubSeq(front, pos + 1, Len(front))

\* a forecast: one game at one observation time
ForecastKey(r) == <<r.lead, r.game>>

\* lines 46-47: the distinct forecasts in order of first appearance
forecast_df(df) ==
    LET first == {i \in 1..Len(df) : \A j \in 1..(i - 1) : ForecastKey(df[j]) # ForecastKey(df[i])}
    IN  [k \in 1..Cardinality(first) |-> ForecastKey(df[Nth(first, k)])]

\* lines 40, 48: the rows with their sportsbook_index and forecast_index (from 0)
merge(df) ==
    LET fdf == forecast_df(df)
    IN  [i \in 1..Len(df) |->
            [game |-> df[i].game, sportsbook_name |-> df[i].sportsbook_name,
             lead |-> df[i].lead, moneyline_home_prob |-> df[i].moneyline_home_prob,
             moneyline_home_outcome |-> df[i].moneyline_home_outcome,
             sportsbook_index |-> sportsbook_index(df[i].sportsbook_name),
             forecast_index |->
                 (CHOOSE k \in 1..Len(fdf) : fdf[k] = ForecastKey(df[i])) - 1]]

\* the rows of the table for forecast fi and sportsbook si
PairRows(df, fi, si) ==
    {i \in 1..Len(df) : df[i].forecast_index = fi /\ df[i].sportsbook_index = si}

\* drop_duplicates with keep='first': the first row of a repeated pair stays
drop_duplicates_keep_first(df) ==
    LET keep == {i \in 1..Len(df) :
                    \A j \in 1..(i - 1) : j \notin PairRows(df, df[i].forecast_index,
                                                              df[i].sportsbook_index)}
    IN  [k \in 1..Cardinality(keep) |-> df[Nth(keep, k)]]

\* drop_duplicates that drops every row of a forecast holding a repeated pair
drop_duplicates_whole_forecast(df) ==
    SelectSeq(df, LAMBDA r :
        \A i \in 1..Len(df) :
            df[i].forecast_index = r.forecast_index =>
                Cardinality(PairRows(df, r.forecast_index, df[i].sportsbook_index)) = 1)

\* line 52: drop_duplicates(subset=[forecast_index, sportsbook_index],
\* keep=False): every row of a pair that occurs more than once is dropped
drop_duplicates(df) ==
    SelectSeq(df, LAMBDA r : Cardinality(PairRows(df, r.forecast_index, r.sportsbook_index)) = 1)

\* line 55: pivot(index=forecast_index, columns=sportsbook_index,
\* values=moneyline_home_prob): one row per forecast index and one column per
\* sportsbook index that still has a row, both ascending, NaN where the pair
\* has no row
pivot(df) ==
    LET index   == Ascending({df[i].forecast_index : i \in 1..Len(df)})
        columns == Ascending({df[i].sportsbook_index : i \in 1..Len(df)})
    IN  [index |-> index, columns |-> columns,
         values |-> [i \in 1..Len(index) |-> [c \in 1..Len(columns) |->
                       LET rows == PairRows(df, index[i], columns[c])
                       IN  IF rows = {} THEN NaN
                           ELSE df[CHOOSE k \in rows : TRUE].moneyline_home_prob]]]

\* line 56: np.array(sportsbooks)[f_dataframe.columns]
included_books_of(columns) == [c \in 1..Len(columns) |-> sportsbooks[columns[c] + 1]]

\* line 60: v = 1 - np.isnan(f).astype(int)
availability(f) ==
    [i \in 1..Len(f) |-> [c \in 1..Len(f[i]) |-> IF IsNaN(f[i][c]) THEN 0 ELSE 1]]

\* line 61: f = np.nan_to_num(f, nan=0)
nan_to_num(f) ==
    [i \in 1..Len(f) |-> [c \in 1..Len(f[i]) |-> IF IsNaN(f[i][c]) THEN Zero ELSE f[i][c]]]

\* line 64: the outcome of each distinct (forecast_index, outcome) pair of the
\* table, in order of first appearance
outcomes(df) ==
    LET pair(r) == <<r.forecast_index, r.moneyline_home_outcome>>
        first == {i \in 1..Len(df) : \A j \in 1..(i - 1) : pair(df[j]) # pair(df[i])}
    IN  [k \in 1..Cardinality(first) |-> df[Nth(first, k)].moneyline_home_outcome]

\* v.sum(axis=1)
RECURSIVE SumInts(_)
SumInts(a) == IF a = <<>> THEN 0 ELSE a[1] + SumInts(Tail(a))

\* the mask that keeps every forecast with at least one available forecaster
mask_any(v) == [i \in 1..Len(v) |-> SumInts(v[i]) > 0]

\* line 68: mask = (v.sum(axis=1) > 1)
mask_of(v) == [i \in 1..Len(v) |-> SumInts(v[i]) > 1]

\* a[mask] for a mask as long as a
Masked(a, mask) ==
    LET keep == {i \in 1..Len(a) : mask[i]}
    IN  [k \in 1..Cardinality(keep) |-> a[Nth(keep, k)]]

\* lines 8-73.  The function returns (v, f, y, included_books); y[mask] of
\* line 71 raises IndexError when y and the mask differ in length.  `rows`
\* is not a value of the code: it names the forecast of each returned row.
preprocess_outcome_data(df0, hours_before, n_games) ==
    LET recent  == lookback(df0, n_games)
        sorted  == sort_values(window_rows(recent, hours_before))
        merged  == merge(sorted)
        df      == drop_duplicates(merged)
        f_dataframe == pivot(df)
        f0      == f_dataframe.values
        v0      == availability(f0)
        f1      == nan_to_num(f0)
        y0      == outcomes(df)
        mask    == mask_of(v0)
        fdf     == forecast_df(sorted)
    IN  IF Len(y0) # Len(mask)
        THEN [status |-> "IndexError", recent |-> recent, merged |-> merged]
        ELSE [status |-> "returned", recent |-> recent, merged |-> merged,
              v |-> Masked(v0, mask), f |-> Masked(f1, mask), y |-> Masked(y0, mask),
              included_books |-> included_books_of(f_dataframe.columns),
              rows |-> Masked([i \in 1..Len(mask) |-> fdf[f_dataframe.index[i] + 1]], mask)]

(***************************************************************************)
(* The lead-time buckets of the main part of estimate_weights.py.          *)
(***************************************************************************)
\* line 129
tmin == 0

\* line 130: the end of the bucket grid (24 in the script; the model covers
\* the grid up to this bound)
tmax == 8

\* line 131
increment == 4

\* line 8: the default of n_games, which the main part never overrides
n_games_default == 1000

\* line 147: np.arange(tmin, tmax, increment)
arange == {t \in tmin..(tmax - 1) : (t - tmin) % increment = 0}

\* lines 150-151: hours_before of the bucket with lower edge t
hours_before_of(t) == <<t, t + increment>>

(***************************************************************************)
(* A specification of preprocess_outcome_data alone: every table over the  *)
(* universe, preprocessed for every bucket and for n_games in 1..MaxGames. *)
(***************************************************************************)
\* largest n_games the function is called with
MaxGames == 2

\* no combination object is part of the run
NoObject ==
    /\ timepoints = <<>>
    /\ models = <<>>
    /\ posterior_dist = <<>>
    /\ call = NoCall

InitPreprocess ==
    /\ NoObject
    /\ outcome_df \in OutcomeTables
    /\ prep = NoPrep
    /\ pc = "idle"
    /\ t_lower = 0
    /\ weights_df_list = <<>>
    /\ weights_df = NoTable
    /\ AuxIdle

\* a call of preprocess_outcome_data(outcome_df, hours_before, n_games)
Preprocess(hours_before, n_games) ==
    /\ prep = NoPrep
    /\ prep' = [op |-> "preprocess_outcome_data", hours_before |-> hours_before,
                n_games |-> n_games,
                out |-> preprocess_outcome_data(outcome_df, hours_before, n_games)]
    /\ UNCHANGED <<outcome_df, pc, t_lower, weights_df_list, weights_df>>
    /\ UNCHANGED qvars
    /\ UNCHANGED auxvars

\* the caller has taken the arrays of the last call
PrepReturn ==
    /\ prep # NoPrep
    /\ pc = "idle"
    /\ prep' = NoPrep
    /\ UNCHANGED <<outcome_df, pc, t_lower, weights_df_list, weights_df>>
    /\ UNCHANGED qvars
    /\ UNCHANGED auxvars

NextPreprocess ==
    \/ PrepReturn
    \/ \E t \in arange, n_games \in 1..MaxGames : Preprocess(hours_before_of(t), n_games)

SpecPreprocess == InitPreprocess /\ [][NextPreprocess]_vars

(***************************************************************************)
(* preprocess_outcome_data on tables in which two games share              *)
(* game_datetime and home_team, so that line 41 interleaves their rows.    *)
(***************************************************************************)
\* games 3 and 4 seen 6 hours ahead, game 3 by A (twice), B and C, game 4 by
\* A and B; game 4 seen 2 hours ahead by B and C
AlignUniverse ==
    << Obs(3, "A", 6, Rat(1, 4)), Obs(3, "A", 6, Rat(3, 4)), Obs(4, "A", 6, Rat(1, 2)),
       Obs(3, "B", 6, Rat(3, 4)), Obs(4, "B", 6, Rat(1, 4)), Obs(3, "C", 6, Rat(1, 2)),
       Obs(4, "B", 2, Rat(1, 4)), Obs(4, "C", 2, Rat(1, 2)) >>

AlignTables ==
    {[k \in 1..Cardinality(S) |-> AlignUniverse[Nth(S, k)]] :
        S \in SUBSET (1..Len(AlignUniverse))}

InitAlign ==
    /\ NoObject
    /\ outcome_df \in AlignTables
    /\ prep = NoPrep
    /\ pc = "idle"
    /\ t_lower = 0
    /\ weights_df_list = <<>>
    /\ weights_df = NoTable
    /\ AuxIdle

SpecAlign == InitAlign /\ [][NextPreprocess]_vars

(***************************************************************************)
(* estimate_combination_weights(v, f, y).  The sampler pm.sample is not    *)
(* code of the repository: it returns draws of the Dirichlet variable,     *)
(* points of the simplex over the m columns, with or without a warning of  *)
(* divergences, or raises when the initial evaluation of the model fails.  *)
(***************************************************************************)
\* line 107: the chains pm.sample runs with cores=1
nchains == 2

\* draws kept per chain (2500 in the script)
DrawsPerChain == 1

\* the points of the simplex a draw may be: uniform, and weights growing
\* with the column
DirichletPoint(m, k) ==
    IF k = 1 THEN [j \in 1..m |-> Rat(1, m)]
    ELSE [j \in 1..m |-> Rat(2 * j, m * (m + 1))]

\* line 106: idata.posterior['weight'], ww[chain][draw] (the draws in the
\* order of the points)
PosteriorSamples(m) ==
    {[c \in 1..nchains |-> [d \in 1..DrawsPerChain |-> DirichletPoint(m, ix[c][d])]] :
        ix \in {ix \in [1..nchains -> [1..DrawsPerChain -> 1..2]] :
                  \A c1, c2 \in 1..nchains, d1, d2 \in 1..DrawsPerChain :
                      ((c1 - 1) * DrawsPerChain + d1 <= (c2 - 1) * DrawsPerChain + d2)
                          => ix[c1][d1] <= ix[c2][d2]}}

\* line 108: np.concatenate([ww[i,:,:] for i in range(nchains)], axis=0)
concatenate_chains(ww) ==
    [k \in 1..(Len(ww) * DrawsPerChain) |->
        ww[((k - 1) \div DrawsPerChain) + 1][((k - 1) % DrawsPerChain) + 1]]

\* the likelihood with a numerator that is not multiplied by v
likelihood_f_bar_ungated(w, v, f) ==
    [i \in 1..Len(v) |->
        Div(SumSeq([j \in 1..Len(w) |-> Mul(w[j], f[i][j])]),
            SumSeq([j \in 1..Len(w) |-> Mul(w[j], Int2Rat(v[i][j]))]))]

\* line 97: f_bar = sum(w*v*f, axis=1) / sum(w*v, axis=1), one value per row
likelihood_f_bar(w, v, f) ==
    [i \in 1..Len(v) |->
        Div(SumSeq([j \in 1..Len(w) |-> Mul(Mul(w[j], Int2Rat(v[i][j])), f[i][j])]),
            SumSeq([j \in 1..Len(w) |-> Mul(w[j], Int2Rat(v[i][j]))]))]

\* the estimator was not called
NoEst == [status |-> "not called"]

\* lines 75-110: what a call can end in.  With m = 0 columns the Dirichlet
\* density is not finite and the initial evaluation fails.  f_bar is the
\* value of line 97 at each returned draw.
estimate_combination_weights(v, f, y, m) ==
    {[status |-> "SamplingError"]} \cup
    (IF m = 0 THEN {}
     ELSE {[status |-> st, w_post |-> concatenate_chains(ww),
            f_bar |-> [d \in 1..(nchains * DrawsPerChain) |->
                          likelihood_f_bar(concatenate_chains(ww)[d], v, f)]] :
              st \in {"converged", "divergent"}, ww \in PosteriorSamples(m)})

(***************************************************************************)
(* The main part of estimate_weights.py for one league.                    *)
(***************************************************************************)
\* lines 158-160: the table of the draws of one bucket; `sampler` is not a
\* value of the code: it keeps what pm.sample reported
w_post_df(w_post, included_books, hours_before, sampler) ==
    [t |-> -((hours_before[1] + hours_before[2]) \div 2),
     columns |-> included_books, w_post |-> w_post, sampler |-> sampler]

\* line 168: the columns of pd.concat, in order of first appearance
RECURSIVE concat_columns(_)
concat_columns(list) ==
    IF list = <<>> THEN <<>>
    ELSE LET front == concat_columns(SubSeq(list, 1, Len(list) - 1))
             have  == {front[c] : c \in 1..Len(front)}
         IN  front \o SelectSeq(list[Len(list)].columns, LAMBDA b : b \notin have)

\* pd.concat that joins the tables by column position instead of column name
concat_rows_positional(list, columns) ==
    [k \in 1..Len(list) * nchains * DrawsPerChain |->
        LET df == list[((k - 1) \div (nchains * DrawsPerChain)) + 1]
            d  == ((k - 1) % (nchains * DrawsPerChain)) + 1
        IN  [t |-> df.t, sample |-> d - 1,
             w |-> [c \in 1..Len(columns) |->
                      IF c <= Len(df.columns) THEN df.w_post[d][c] ELSE NaN]]]

\* line 168: pd.concat(weights_df_list): the rows of every table under the
\* joint columns, NaN where a table has no such column
RECURSIVE concat_rows(_, _)
concat_rows(list, columns) ==
    IF list = <<>> THEN <<>>
    ELSE LET df == list[Len(list)]
         IN  concat_rows(SubSeq(list, 1, Len(list) - 1), columns) \o
             [d \in 1..Len(df.w_post) |->
                 [t |-> df.t, sample |-> d - 1,
                  w |-> [c \in 1..Len(columns) |->
                           IF \E j \in 1..Len(df.columns) : df.columns[j] = columns[c]
                           THEN df.w_post[d][CHOOSE j \in 1..Len(df.columns) :
                                                df.columns[j] = columns[c]]
                           ELSE NaN]]]

\* fillna left out: the missing cells stay NaN
fillna_omitted(rows) == rows

\* line 168: fillna(0)
fillna(rows) ==
    [k \in 1..Len(rows) |->
        [t |-> rows[k].t, sample |-> rows[k].sample,
         w |-> [c \in 1..Len(rows[k].w) |->
                  IF IsNaN(rows[k].w[c]) THEN Zero ELSE rows[k].w[c]]]]

\* the rows of the universe the tables of the estimation run are made of:
\* game 1 seen 3 hours ahead by B and C and 4 hours ahead by A and B, game 3
\* seen 6 hours ahead by B and C
EstimateRows == {3, 4, 5, 6, 11, 12}

EstimateTables == {TableOf(S) : S \in SUBSET EstimateRows}

\* lines 133-145: the observations are read, the list of tables is empty
InitEstimate ==
    /\ NoObject
    /\ outcome_df \in EstimateTables
    /\ prep = NoPrep
    /\ pc = "loop"
    /\ t_lower = tmin
    /\ weights_df_list = <<>>
    /\ weights_df = NoTable
    /\ AuxIdle

\* lines 147-161: one pass of the bucket loop.  An exception of the
\* preprocessing or of the sampler is caught nowhere and ends the script.
EstimateBucket ==
    /\ pc = "loop"
    /\ t_lower \in arange
    /\ LET hours_before == hours_before_of(t_lower)
           out == preprocess_outcome_data(outcome_df, hours_before, n_games_default)
       IN  IF out.status # "returned"
           THEN /\ prep' = [op |-> "preprocess_outcome_data", hours_before |-> hours_before,
                            n_games |-> n_games_default, out |-> out, est |-> NoEst]
                /\ pc' = "aborted"
                /\ UNCHANGED <<t_lower, weights_df_list>>
           ELSE \E est \in estimate_combination_weights(out.v, out.f, out.y,
                                                        Len(out.included_books)) :
                  /\ prep' = [op |-> "preprocess_outcome_data", hours_before |-> hours_before,
                              n_games |-> n_games_default, out |-> out, est |-> est]
                  /\ IF est.status = "SamplingError"
                     THEN /\ pc' = "aborted"
                          /\ UNCHANGED <<t_lower, weights_df_list>>
                     ELSE /\ pc' = "loop"
                          /\ t_lower' = t_lower + increment
                          /\ weights_df_list' =
                                 Append(weights_df_list,
                                        w_post_df(est.w_post, out.included_books,
                                                  hours_before, est.status))
    /\ UNCHANGED <<outcome_df, weights_df>>
    /\ UNCHANGED qvars
    /\ UNCHANGED auxvars

\* lines 167-173: after the last bucket the tables are concatenated, the
\* missing cells filled with 0 and the table written
Save ==
    /\ pc = "loop"
    /\ t_lower \notin arange
    /\ LET columns == concat_columns(weights_df_list)
       IN  weights_df' = [saved |-> TRUE, columns |-> columns,
                          rows |-> fillna(concat_rows(weights_df_list, columns))]
    /\ pc' = "saved"
    /\ UNCHANGED <<outcome_df, prep, t_lower, weights_df_list>>
    /\ UNCHANGED qvars
    /\ UNCHANGED auxvars

\* combine_forecasts.py lines 200-205 and 12-32: the written table is read
\* and a ModelCombination is constructed from it
Load ==
    /\ pc = "saved"
    /\ LET tp == Ascending({weights_df.rows[k].t : k \in 1..Len(weights_df.rows)})
       IN  /\ timepoints' = tp
           /\ models' = weights_df.columns
           /\ posterior_dist' =
                  [a \in 1..Len(tp) |->
                      LET of == {k \in 1..Len(weights_df.rows) : weights_df.rows[k].t = tp[a]}
                      IN  [d \in 1..Cardinality(of) |-> weights_df.rows[Nth(of, d)].w]]
    /\ pc' = "loaded"
    /\ UNCHANGED <<call, outcome_df, prep, t_lower, weights_df_list, weights_df>>
    /\ UNCHANGED auxvars

NextEstimate ==
    \/ EstimateBucket
    \/ Save
    \/ Load

SpecEstimate == InitEstimate /\ [][NextEstimate]_vars

(***************************************************************************)
(* Concurrent queries on one ModelCombination.  Each thread runs           *)
(* get_timepoint_weights or combine_forecasts; a step of a thread is a     *)
(* stretch of the method that reads the object once, and steps of the      *)
(* threads interleave in any order.                                        *)
(***************************************************************************)
Threads == {"t1", "t2"}

\* the objects of the concurrent runs: two anchors, one or two draws each
ConcurrentPosteriors ==
    { << <<WeightGrid[1]>>, <<WeightGrid[1], WeightGrid[2]>> >>,
      << <<WeightGrid[1], WeightGrid[2]>>, <<WeightGrid[2]>> >> }

\* the queries of the concurrent runs
ConcurrentTimes == {-5, -2}

ConcurrentQuoteMaps == {[n \in S |-> Quote[n]] : S \in {{"A", "B"}, {"A"}}}

NoQuery == [pc |-> "idle"]

\* combine_forecasts lines 91-98 and get_timepoint_weights: self.posterior_dist
\* after the method has read the ensembles it1 and it2.  The products
\* w1_dist*v*f and w2_dist*v are new arrays; no statement of either method
\* assigns to self.posterior_dist or to an element of it.
posterior_dist_inplace(post, it1, it2, v) ==
    [a \in 1..Len(post) |->
        IF a = it1 + 1 \/ a = it2 + 1
        THEN [d \in 1..Len(post[a]) |-> [c \in 1..Len(v) |-> Mul(post[a][d][c], v[c])]]
        ELSE post[a]]

posterior_dist_after(post, it1, it2, v) == post

InitConcurrent ==
    /\ timepoints \in AnchorChoices
    /\ models = ModelNames
    /\ posterior_dist \in ConcurrentPosteriors
    /\ call = NoCall
    /\ EstIdle
    /\ queries = [th \in Threads |-> NoQuery]
    /\ live = NoLive
    /\ scrape = NoScrape

\* thread th calls get_timepoint_weights(t)
BeginLocate(th, t) ==
    /\ queries[th].pc = "idle"
    /\ queries' = [queries EXCEPT ![th] =
                      [pc |-> "called", op |-> "get_timepoint_weights", t |-> t]]
    /\ UNCHANGED <<timepoints, models, posterior_dist, call, live, scrape>>
    /\ UNCHANGED estvars

\* thread th calls combine_forecasts(f_dict, t, alpha)
BeginCombine(th, f_dict, t, alpha) ==
    /\ queries[th].pc = "idle"
    /\ queries' = [queries EXCEPT ![th] =
                      [pc |-> "called", op |-> "combine_forecasts",
                       f_dict |-> f_dict, t |-> t, alpha |-> alpha]]
    /\ UNCHANGED <<timepoints, models, posterior_dist, call, live, scrape>>
    /\ UNCHANGED estvars

\* lines 74-86: f and v are filled from self.models
QuoteStep(th) ==
    /\ queries[th].pc = "called"
    /\ queries[th].op = "combine_forecasts"
    /\ queries' = [queries EXCEPT ![th] =
                      [pc |-> "quoted", op |-> @.op, f_dict |-> @.f_dict, t |-> @.t,
                       alpha |-> @.alpha,
                       f |-> quote_f(models, @.f_dict), v |-> quote_v(models, @.f_dict)]]
    /\ UNCHANGED <<timepoints, models, posterior_dist, call, live, scrape>>
    /\ UNCHANGED estvars

\* get_timepoint_weights, lines 47-62, called directly: the call returns
LocateStep(th) ==
    /\ queries[th].pc = "called"
    /\ queries[th].op = "get_timepoint_weights"
    /\ queries' = [queries EXCEPT ![th] =
                      [pc |-> "done", op |-> @.op, t |-> @.t,
                       res |-> get_timepoint_weights(timepoints, @.t)]]
    /\ UNCHANGED <<timepoints, models, posterior_dist, call, live, scrape>>
    /\ UNCHANGED estvars

\* line 89: get_timepoint_weights called by combine_forecasts
CombineLocateStep(th) ==
    /\ queries[th].pc = "quoted"
    /\ queries' = [queries EXCEPT ![th] =
                      [pc |-> "located", op |-> @.op, f_dict |-> @.f_dict, t |-> @.t,
                       alpha |-> @.alpha, f |-> @.f, v |-> @.v,
                       loc |-> get_timepoint_weights(timepoints, @.t)]]
    /\ UNCHANGED <<timepoints, models, posterior_dist, call, live, scrape>>
    /\ UNCHANGED estvars

\* lines 91-104: the two ensembles are read and the samples pooled
PoolStep(th) ==
    /\ queries[th].pc = "located"
    /\ LET q == queries[th]
           w1_dist == posterior_dist[q.loc.it1 + 1]
           w2_dist == posterior_dist[q.loc.it2 + 1]
       IN  /\ queries' = [queries EXCEPT ![th] =
                  [pc |-> "pooled", op |-> q.op, f_dict |-> q.f_dict, t |-> q.t,
                   alpha |-> q.alpha,
                   f_bar_dist |-> f_bar_t_dist(w1_dist, q.v, q.f)
                                  \o f_bar_t_dist(w2_dist, q.v, q.f),
                   sample_weights |-> t_sample_weights(q.loc.wt1, Len(w1_dist))
                                      \o t_sample_weights(q.loc.wt2, Len(w2_dist))]]
           /\ posterior_dist' = posterior_dist_after(posterior_dist, q.loc.it1, q.loc.it2, q.v)
    /\ UNCHANGED <<timepoints, models, call, live, scrape>>
    /\ UNCHANGED estvars

\* lines 106-124: sort, CDF, point estimate and bounds, on local arrays
FinishStep(th) ==
    /\ queries[th].pc = "pooled"
    /\ LET q == queries[th]
       IN  \E sort_inds \in ArgSorts(q.f_bar_dist, q.sample_weights) :
               queries' = [queries EXCEPT ![th] =
                  [pc |-> "done", op |-> q.op, f_dict |-> q.f_dict, t |-> q.t,
                   alpha |-> q.alpha, sort_inds |-> sort_inds,
                   res |-> combine_sorted(q, q.alpha, sort_inds)]]
    /\ UNCHANGED <<timepoints, models, posterior_dist, call, live, scrape>>
    /\ UNCHANGED estvars

\* the caller of thread th has taken the result
QueryReturn(th) ==
    /\ queries[th].pc = "done"
    /\ queries' = [queries EXCEPT ![th] = NoQuery]
    /\ UNCHANGED <<timepoints, models, posterior_dist, call, live, scrape>>
    /\ UNCHANGED estvars

NextConcurrent ==
    \E th \in Threads :
        \/ \E t \in ConcurrentTimes : BeginLocate(th, t)
        \/ \E f_dict \in ConcurrentQuoteMaps, t \in ConcurrentTimes :
               BeginCombine(th, f_dict, t, Rat(1, 20))
        \/ QuoteStep(th)
        \/ LocateStep(th)
        \/ CombineLocateStep(th)
        \/ PoolStep(th)
        \/ FinishStep(th)
        \/ QueryReturn(th)

SpecConcurrent == InitConcurrent /\ [][NextConcurrent]_vars

(***************************************************************************)
(* The main part of combine_forecasts.py for one league: the latest quotes *)
(* are read, duplicated lines dropped, and every game is combined and its  *)
(* expected returns computed.                                              *)
(***************************************************************************)
\* a row of prob_df.  game_id stands for the string of line 193, in its
\* order; t is observation_datetime - game_datetime in hours, so that within
\* a game equal t means equal observation_datetime
LiveRow(g, book, t, p, home_odds, away_odds) ==
    [game_id |-> g, sportsbook_name |-> book, t |-> t, moneyline_home_prob |-> p,
     moneyline_home_odds |-> home_odds, moneyline_away_odds |-> away_odds]

\* the rows a quotes file may hold, in file order: game 1 quoted by A and B
\* and later again by A; game 2 quoted by A twice at the same time and by B;
\* game 3 quoted by X only, a name the weights table lacks
LiveUniverse ==
    << LiveRow(1, "A", -3, Rat(1, 4), Rat(4, 1), Rat(4, 3)),
       LiveRow(1, "B", -3, Rat(1, 2), Rat(2, 1), Rat(2, 1)),
       LiveRow(2, "A", -5, Rat(3, 4), Rat(4, 3), Rat(4, 1)),
       LiveRow(2, "A", -5, Rat(1, 4), Rat(4, 1), Rat(4, 3)),
       LiveRow(2, "B", -5, Rat(1, 2), Rat(2, 1), Rat(2, 1)),
       LiveRow(3, "X", -3, Rat(1, 2), Rat(2, 1), Rat(2, 1)),
       LiveRow(1, "A", -2, Rat(1, 2), Rat(2, 1), Rat(2, 1)) >>

LiveTables ==
    {[k \in 1..Cardinality(S) |-> LiveUniverse[Nth(S, k)]] :
        S \in SUBSET (1..Len(LiveUniverse))}

\* game_datetime of each game and whether the name of its home team sorts
\* before the name of its away team
LiveGameDatetime == <<50, 60, 50>>

LiveHomeSortsFirst == <<TRUE, FALSE, TRUE>>

\* the order of the sportsbook names
BookRank(name) == IF name = "A" THEN 1 ELSE IF name = "B" THEN 2 ELSE 3

\* the weights file of the league: anchors -6 and -2 over the forecasters A, B
LiveWeights ==
    [saved |-> TRUE, columns |-> ModelNames,
     rows |-> << [t |-> -6, sample |-> 0, w |-> WeightGrid[1]],
                 [t |-> -2, sample |-> 0, w |-> WeightGrid[1]],
                 [t |-> -2, sample |-> 1, w |-> WeightGrid[2]] >>]

\* line 194: prob_df['game_id'].unique(), in order of first appearance
unique_game_ids(df) ==
    LET first == {i \in 1..Len(df) : \A j \in 1..(i - 1) : df[j].game_id # df[i].game_id}
    IN  [k \in 1..Cardinality(first) |-> df[Nth(first, k)].game_id]

\* line 197: drop_duplicates(subset=[game_id, sportsbook_name,
\* observation_datetime], keep=False)
live_drop_duplicates(df) ==
    SelectSeq(df, LAMBDA r :
        Cardinality({i \in 1..Len(df) : /\ df[i].game_id = r.game_id
                                        /\ df[i].sportsbook_name = r.sportsbook_name
                                        /\ df[i].t = r.t}) = 1)

\* lines 12-32: the object constructed from a weights table
ModelCombination(weight_df) ==
    LET tp == Ascending({weight_df.rows[k].t : k \in 1..Len(weight_df.rows)})
    IN  [timepoints |-> tp, models |-> weight_df.columns,
         posterior_dist |->
             [a \in 1..Len(tp) |->
                 LET of == {k \in 1..Len(weight_df.rows) : weight_df.rows[k].t = tp[a]}
                 IN  [d \in 1..Cardinality(of) |-> weight_df.rows[Nth(of, d)].w]]]

\* line 214: prob_df[m]
game_rows(df, game_id) == SelectSeq(df, LAMBDA r : r.game_id = game_id)

\* line 215: set_index('sportsbook_name').to_dict()['moneyline_home_prob'];
\* of several rows of one sportsbook the last gives the value
live_f_dict(rows) ==
    [n \in {rows[i].sportsbook_name : i \in 1..Len(rows)} |->
        LET last == CHOOSE i \in 1..Len(rows) :
                        /\ rows[i].sportsbook_name = n
                        /\ \A j \in (i + 1)..Len(rows) : rows[j].sportsbook_name # n
        IN  rows[last].moneyline_home_prob]

\* lines 222-232: the lines of a game, home side then away side, with
\* hit_prob and EROI
game_roi_df(rows, f_bar) ==
    [i \in 1..Len(rows) |->
        [game_id |-> rows[i].game_id, sportsbook |-> rows[i].sportsbook_name,
         side |-> "home", odds |-> rows[i].moneyline_home_odds, hit_prob |-> f_bar,
         EROI |-> Sub(Mul(f_bar, rows[i].moneyline_home_odds), One)]]
    \o
    [i \in 1..Len(rows) |->
        [game_id |-> rows[i].game_id, sportsbook |-> rows[i].sportsbook_name,
         side |-> "away", odds |-> rows[i].moneyline_away_odds,
         hit_prob |-> Sub(One, f_bar),
         EROI |-> Sub(Mul(Sub(One, f_bar), rows[i].moneyline_away_odds), One)]]

\* the order of line 249: by game_datetime, game_id, sportsbook, side
RoiKeyLe(r1, r2) ==
    LET side(r) == IF (r.side = "home") = LiveHomeSortsFirst[r.game_id] THEN 1 ELSE 2
        k1 == <<LiveGameDatetime[r1.game_id], r1.game_id, BookRank(r1.sportsbook), side(r1)>>
        k2 == <<LiveGameDatetime[r2.game_id], r2.game_id, BookRank(r2.sportsbook), side(r2)>>
    IN  \/ k1[1] < k2[1]
        \/ k1[1] = k2[1] /\ k1[2] < k2[2]
        \/ k1[1] = k2[1] /\ k1[2] = k2[2] /\ k1[3] < k2[3]
        \/ k1[1] = k2[1] /\ k1[2] = k2[2] /\ k1[3] = k2[3] /\ k1[4] <= k2[4]

\* line 249: sort_values(...).reset_index(drop=True), a stable sort
RECURSIVE roi_sort_values(_)
roi_sort_values(df) ==
    IF df = <<>> THEN <<>>
    ELSE LET front == roi_sort_values(SubSeq(df, 1, Len(df) - 1))
             r     == df[Len(df)]
             pos   == Cardinality({i \in 1..Len(front) : RoiKeyLe(front[i], r)})
         IN  SubSeq(front, 1, pos) \o <<r>> \o SubSeq(front, pos + 1, Len(front))

\* line 248: pd.concat(roi_df_list)
RECURSIVE roi_concat(_)
roi_concat(list) == IF list = <<>> THEN <<>> ELSE list[1] \o roi_concat(Tail(list))

InitLive ==
    /\ NoObject
    /\ outcome_df = <<>>
    /\ prep = NoPrep
    /\ pc = "idle"
    /\ t_lower = 0
    /\ weights_df_list = <<>>
    /\ weights_df = LiveWeights
    /\ queries = NoQueries
    /\ scrape = NoScrape
    /\ \E df \in LiveTables : live = [pc |-> "read", prob_df |-> df]

\* lines 177-207: the game ids are taken, then the duplicated lines dropped,
\* the weights read and the combination object constructed
LivePrepare ==
    /\ live.pc = "read"
    /\ LET mc == ModelCombination(weights_df)
       IN  /\ timepoints' = mc.timepoints
           /\ models' = mc.models
           /\ posterior_dist' = mc.posterior_dist
    /\ live' = [pc |-> "loop", game_ids |-> unique_game_ids(live.prob_df),
                prob_df |-> live_drop_duplicates(live.prob_df),
                k |-> 1, roi_df_list |-> <<>>, roi_json_data |-> <<>>]
    /\ UNCHANGED <<call, queries, scrape>>
    /\ UNCHANGED estvars

\* lines 209-245, one pass of the loop over game_ids.  For a game without
\* rows .iloc[0] of line 216 raises IndexError, which nothing catches.
LiveGame ==
    /\ live.pc = "loop"
    /\ live.k <= Len(live.game_ids)
    /\ LET game_id == live.game_ids[live.k]
           rows    == game_rows(live.prob_df, game_id)
       IN  IF rows = <<>>
           THEN live' = [live EXCEPT !.pc = "IndexError"]
           ELSE LET f_dict == live_f_dict(rows)
                    t      == rows[1].t
                    p      == pooled(timepoints, models, posterior_dist, f_dict, t)
                IN  \E sort_inds \in ArgSorts(p.f_bar_dist, p.sample_weights) :
                        LET f_bar == combine_sorted(p, Rat(1, 20), sort_inds).f_bar
                        IN  live' = [live EXCEPT
                                !.k = @ + 1,
                                !.roi_df_list = Append(@, game_roi_df(rows, f_bar)),
                                !.roi_json_data =
                                    Append(@, [game_id |-> game_id, home_win_prob |-> f_bar,
                                               away_win_prob |-> Sub(One, f_bar)])]
    /\ UNCHANGED <<timepoints, models, posterior_dist, call, queries, scrape>>
    /\ UNCHANGED estvars

\* lines 247-255: the lines of all games are concatenated, sorted and
\* written; pd.concat of an empty list raises ValueError
LiveSave ==
    /\ live.pc = "loop"
    /\ live.k > Len(live.game_ids)
    /\ IF live.roi_df_list = <<>>
       THEN live' = [live EXCEPT !.pc = "ValueError"]
       ELSE live' = [pc |-> "saved", game_ids |-> live.game_ids, prob_df |-> live.prob_df,
                     k |-> live.k, roi_df_list |-> live.roi_df_list,
                     roi_json_data |-> live.roi_json_data,
                     roi_df |-> roi_sort_values(roi_concat(live.roi_df_list))]
    /\ UNCHANGED <<timepoints, models, posterior_dist, call, queries, scrape>>
    /\ UNCHANGED estvars

NextLive ==
    \/ LivePrepare
    \/ LiveGame
    \/ LiveSave

SpecLive == InitLive /\ [][NextLive]_vars

(***************************************************************************)
(* sportsbettingscrapers.py: scrape_NCAAMB_scores.  One request per date   *)
(* of the period, retried up to failure_limit times, then the response is  *)
(* parsed and its scores collected.                                        *)
(***************************************************************************)
\* the most dates a period has in the model (a month in the code)
MaxDates == 2

\* the largest failure_limit the function is called with
MaxFailures == 2

\* what a response holds: a scoreboard with a final game, a scoreboard
\* without one, the message 'Object not found.', or text that is not JSON
Bodies == {"final", "none final", "not found", "not json"}

\* what requests.get may return for the request of a date: a response that
\* is ok, or one that is not and holds no scoreboard
Responses(date) ==
    {[for_date |-> date, ok |-> TRUE, body |-> b] : b \in Bodies}
    \cup {[for_date |-> date, ok |-> FALSE, body |-> b] : b \in {"not found", "not json"}}

\* the local res before the first assignment
Unbound == [for_date |-> 0, ok |-> FALSE, body |-> "unbound"]

\* lines 849-857: res.json() and extract_NCAAMB_scores (lines 872-925).  An
\* unbound res raises NameError and text that is not JSON makes json() raise,
\* both swallowed by the bare except; 'Object not found.' makes the helper
\* return None.  Otherwise the table of the final games is appended, tagged
\* here with the date of the loop and the date the response was requested for.
parse_response(df_list, res, date) ==
    IF res.body \in {"final", "none final"}
    THEN Append(df_list, [for_date |-> date, parsed_from |-> res.for_date,
                          rows |-> IF res.body = "final" THEN 1 ELSE 0])
    ELSE df_list

RECURSIVE score_rows(_)
score_rows(df_list) ==
    IF df_list = <<>> THEN 0 ELSE df_list[1].rows + score_rows(Tail(df_list))

InitScrape ==
    /\ NoObject
    /\ EstIdle
    /\ queries = NoQueries
    /\ live = NoLive
    /\ \E n \in 1..MaxDates, failure_limit \in 1..MaxFailures :
           scrape = [pc |-> "request", dates |-> n, failure_limit |-> failure_limit,
                     date |-> 1, num_failures |-> 0, res |-> Unbound, df_list |-> <<>>]

\* lines 836-847, one pass of the while loop: requests.get raises, or
\* returns a response that is ok (break) or not ok; the loop ends on break or
\* when num_failures reaches failure_limit
ScrapeAttempt ==
    /\ scrape.pc = "request"
    /\ scrape.num_failures < scrape.failure_limit
    /\ LET failed == scrape.num_failures + 1
           after  == IF failed < scrape.failure_limit THEN "request" ELSE "parse"
       IN  \/ scrape' = [scrape EXCEPT !.num_failures = failed, !.pc = after]
           \/ \E r \in Responses(scrape.date) :
                  IF r.ok
                  THEN scrape' = [scrape EXCEPT !.res = r, !.pc = "parse"]
                  ELSE scrape' = [scrape EXCEPT !.res = r, !.num_failures = failed,
                                                !.pc = after]
    /\ UNCHANGED <<timepoints, models, posterior_dist, call, queries, live>>
    /\ UNCHANGED estvars

\* lines 849-858, then the next date of the loop (lines 809, 834)
ScrapeParse ==
    /\ scrape.pc = "parse"
    /\ scrape' = [scrape EXCEPT
                     !.df_list = parse_response(@, scrape.res, scrape.date),
                     !.date = @ + 1,
                     !.num_failures = 0,
                     !.pc = IF scrape.date < scrape.dates THEN "request" ELSE "finish"]
    /\ UNCHANGED <<timepoints, models, posterior_dist, call, queries, live>>
    /\ UNCHANGED estvars

\* lines 860-870: the concatenated scores, or None when there are none
ScrapeReturn ==
    /\ scrape.pc = "finish"
    /\ scrape' = [pc |-> "returned", df_list |-> scrape.df_list,
                  result |-> IF score_rows(scrape.df_list) > 0 THEN "score_df" ELSE "None"]
    /\ UNCHANGED <<timepoints, models, posterior_dist, call, queries, live>>
    /\ UNCHANGED estvars

NextScrape ==
    \/ ScrapeAttempt
    \/ ScrapeParse
    \/ ScrapeReturn

SpecScrape == InitScrape /\ [][NextScrape]_vars

(***************************************************************************)
(* Properties.                                                             *)
(***************************************************************************)
IsCombine == call.op = "combine_forecasts"

IsLocate == call.op = "get_timepoint_weights"

\* the columns of the table whose forecaster is a key of the quote map
Recognized(f_dict) == {j \in 1..Len(models) : models[j] \in DOMAIN f_dict}

\* no pooled sample of the call is NaN
AllNumbers == \A i \in 1..Len(call.res.f_bar_dist) : ~IsNaN(call.res.f_bar_dist[i])

MinSample == call.res.f_bar_dist[1]

MaxSample == call.res.f_bar_dist[Len(call.res.f_bar_dist)]

\* the arithmetic mean of a sequence of numbers
Mean(a) == Div(SumSeq(a), Int2Rat(Len(a)))

\* C1: a combine call whose quote map holds no recognized forecaster (empty,
\* or unknown names only) fails with InvalidQueryError instead of returning.
C1_NoForecasterRaises ==
    (IsCombine /\ Recognized(call.f_dict) = {})
        => call.outcome = "InvalidQueryError"

\* C2: a combine call with exactly one recognized forecaster in the quote map
\* returns that forecaster's quote as the point estimate, also when draws give
\* that forecaster weight 0.
C2_SingleForecasterIdentity ==
    (IsCombine /\ Cardinality(Recognized(call.f_dict)) = 1)
        => LET j == CHOOSE j \in Recognized(call.f_dict) : TRUE
           IN  call.res.f_bar = call.f_dict[models[j]]

\* C3 as stated, for the calls whose pooled samples are all numbers: the
\* returned triple satisfies lower <= estimate <= upper.
C3_EstimateInsideInterval ==
    (IsCombine /\ AllNumbers)
        => Le(call.res.LB, call.res.f_bar) /\ Le(call.res.f_bar, call.res.UB)

\* C3 amended: the returned interval is never inverted (upper < lower never
\* holds) and the estimate is never below the smallest nor above the largest
\* pooled sample; it need not lie between lower and upper.
C3_IntervalOrderedEstimateInRange ==
    IsCombine
        => /\ ~Lt(call.res.UB, call.res.LB)
           /\ ~Lt(call.res.f_bar, MinSample)
           /\ ~Lt(MaxSample, call.res.f_bar)

\* C3 witness: a call on a skewed pool (anchors with different draw counts)
\* whose estimate is a number above the upper bound of a proper interval.
C3_Witness ==
    /\ IsCombine /\ AllNumbers
    /\ call.pooled.num_t1_samples # call.pooled.num_t2_samples
    /\ Lt(call.res.LB, call.res.UB)
    /\ Lt(call.res.UB, call.res.f_bar)

\* C4: with quotes in [0,1] and draws on the simplex (all quotes and draws of
\* this model) the point estimate of every combine call lies in [0,1].
C4_EstimateInUnitInterval ==
    IsCombine => Le(Zero, call.res.f_bar) /\ Le(call.res.f_bar, One)

\* C5: a time outside [t_1, t_K] is located at the nearest end anchor with
\* full weight (k1 = k2 = that anchor, weights 1 and 0), and combine there
\* returns what combine returns at that end anchor.
C5_ClampToEndAnchor ==
    \A e \in {1, Len(timepoints)} :
        LET outside == IF e = 1 THEN call.t < timepoints[1]
                       ELSE call.t > timepoints[Len(timepoints)]
            clamped == [it1 |-> e - 1, it2 |-> e - 1, wt1 |-> One, wt2 |-> Zero]
        IN  /\ (IsLocate /\ outside) => call.loc = clamped
            /\ (IsCombine /\ outside) =>
                   /\ [it1 |-> call.pooled.it1, it2 |-> call.pooled.it2,
                       wt1 |-> call.pooled.wt1, wt2 |-> call.pooled.wt2] = clamped
                   /\ call.res = combine_forecasts(timepoints, models, posterior_dist,
                                     call.f_dict, timepoints[e], call.alpha,
                                     call.sort_inds)

\* C5 witness: combine calls below the first and above the last anchor exist;
\* this one is above the last, with a result that is a number.
C5_Witness ==
    /\ IsCombine /\ AllNumbers
    /\ call.t > timepoints[Len(timepoints)]
    /\ call.pooled.it1 = Len(timepoints) - 1

\* the table with every anchor but the k-th holding one reference ensemble
OnlyAnchor(k) ==
    [i \in 1..Len(timepoints) |->
        IF i = k THEN posterior_dist[i] ELSE <<WeightGrid[1]>>]

\* C6: at a query time equal to anchor t_k the location is k1 = k2 = k with
\* weights 1 and 0, and the result of combine is the result on the table whose
\* other anchors all hold a fixed reference ensemble; as every table is a
\* state, tables that agree on E_k give the same result.
C6_AnchorOnlyOwnEnsemble ==
    \A k \in 1..Len(timepoints) :
        (IsCombine /\ call.t = timepoints[k]) =>
            /\ call.pooled.it1 = k - 1 /\ call.pooled.it2 = k - 1
            /\ call.pooled.wt1 = One /\ call.pooled.wt2 = Zero
            /\ call.res = combine_forecasts(timepoints, models, OnlyAnchor(k),
                              call.f_dict, call.t, call.alpha, call.sort_inds)

\* C6 witness: a combine call at the first anchor on a table whose other
\* anchor holds an ensemble that differs from the first anchor's and from the
\* reference ensemble.
C6_Witness ==
    /\ IsCombine /\ AllNumbers
    /\ call.t = timepoints[1]
    /\ posterior_dist[2] # posterior_dist[1]
    /\ posterior_dist[2] # <<WeightGrid[1]>>

\* C7: a time strictly between two consecutive anchors t_k < t < t_k+1 is
\* located at k1 = k, k2 = k + 1 with alpha2 = (t - t_k1)/(t_k2 - t_k1) and
\* alpha1 = 1 - alpha2, both strictly between 0 and 1 and summing to 1.
C7_BracketingAnchors ==
    \A k \in 1..(Len(timepoints) - 1) :
        (IsLocate /\ timepoints[k] < call.t /\ call.t < timepoints[k + 1]) =>
            /\ call.loc.it1 = k - 1 /\ call.loc.it2 = k
            /\ call.loc.wt2 = Rat(call.t - timepoints[k],
                                  timepoints[k + 1] - timepoints[k])
            /\ call.loc.wt1 = Sub(One, call.loc.wt2)
            /\ Lt(Zero, call.loc.wt1) /\ Lt(call.loc.wt1, One)
            /\ Lt(Zero, call.loc.wt2) /\ Lt(call.loc.wt2, One)
            /\ Add(call.loc.wt1, call.loc.wt2) = One

\* C7 witness: a time located strictly between the second and third anchor of
\* a table, nearer to one of them than to the other.
C7_Witness ==
    /\ IsLocate
    /\ Len(timepoints) >= 3
    /\ timepoints[2] < call.t /\ call.t < timepoints[3]
    /\ call.loc.wt1 # call.loc.wt2

\* C8: every pooled sample of anchor k carries mass alpha_k/n_k, so the mass
\* of each anchor is its interpolation weight, the total mass is 1, and the
\* point estimate is alpha1*mean(samples of k1) + alpha2*mean(samples of k2)
\* (both sides NaN when a sample is NaN).
C8_MassPerAnchor ==
    IsCombine =>
        LET n1 == call.pooled.num_t1_samples
            n2 == call.pooled.num_t2_samples
            m  == call.pooled.sample_weights
            x  == call.pooled.f_bar_dist
        IN  /\ \A i \in 1..n1 : m[i] = Div(call.pooled.wt1, Int2Rat(n1))
            /\ \A i \in 1..n2 : m[n1 + i] = Div(call.pooled.wt2, Int2Rat(n2))
            /\ SumSeq(SubSeq(m, 1, n1)) = call.pooled.wt1
            /\ SumSeq(SubSeq(m, n1 + 1, n1 + n2)) = call.pooled.wt2
            /\ SumSeq(call.res.sample_weights) = One
            /\ call.res.f_bar =
                   Add(Mul(call.pooled.wt1, Mean(SubSeq(x, 1, n1))),
                       Mul(call.pooled.wt2, Mean(SubSeq(x, n1 + 1, n1 + n2))))

\* C8 witness: a call between the anchors, which hold different numbers of
\* draws and get different weights, with a pool that is not constant.
C8_Witness ==
    /\ IsCombine /\ AllNumbers
    /\ call.pooled.it1 # call.pooled.it2
    /\ call.pooled.num_t1_samples # call.pooled.num_t2_samples
    /\ call.pooled.wt1 # call.pooled.wt2
    /\ MinSample # MaxSample

\* C9: the bounds lie between the smallest and the largest pooled sample, in
\* order: min(sample) <= lower <= upper <= max(sample), for every combine call.
C9_BoundsWithinSamples ==
    IsCombine => /\ Le(MinSample, call.res.LB)
                 /\ Le(call.res.LB, call.res.UB)
                 /\ Le(call.res.UB, MaxSample)

\* significance levels the interval of a call is compared with
AlphaLevels == {Rat(1, 20), Rat(1, 5), Rat(1, 2), Rat(9, 10)}

\* C10: for the same quote map, time and ensemble, a significance level b
\* below the one of the call gives an interval at least as wide:
\* lower(b) <= lower(alpha) and upper(alpha) <= upper(b).
C10_LargerAlphaNotWider ==
    IsCombine =>
        \A b \in AlphaLevels :
            Le(b, call.alpha) =>
                LET rb == combine_sorted(call.pooled, b, call.sort_inds)
                IN  /\ Le(rb.LB, call.res.LB)
                    /\ Le(call.res.UB, rb.UB)

(***************************************************************************)
(* What remains of C4, C9 and C10 on the calls whose pooled samples are    *)
(* all numbers: there the three statements hold, so they fail only through *)
(* the NaN of a draw that gives the quoted forecasters no weight.          *)
(***************************************************************************)
NumbersEstimateInUnitInterval == (IsCombine /\ AllNumbers) => C4_EstimateInUnitInterval

NumbersBoundsWithinSamples == (IsCombine /\ AllNumbers) => C9_BoundsWithinSamples

NumbersLargerAlphaNotWider == (IsCombine /\ AllNumbers) => C10_LargerAlphaNotWider


\* the call of the worked example: both forecasters quoted, t = -4, alpha = 0.05
IsScenarioCall ==
    /\ IsCombine
    /\ timepoints = <<-6, -2>>
    /\ posterior_dist = ScenarioPosterior
    /\ call.f_dict = [n \in {"A", "B"} |-> ScenarioQuote[n]]
    /\ call.t = -4
    /\ call.alpha = Rat(1, 20)

\* C11: in the worked example (anchors -6 and -2 with five identical draws
\* (0.4, 0.6) and (0.7, 0.3), quotes A = 0.6 and B = 0.8, t = -4, alpha = 0.05)
\* the interpolation weights are 0.5 and 0.5, the combined probabilities of the
\* two anchors are 0.72 and 0.66, the point estimate is 0.69 and the interval
\* is [0.66, 0.72].
C11_WorkedExample ==
    IsScenarioCall =>
        /\ call.pooled.wt1 = Rat(1, 2)
        /\ call.pooled.wt2 = Rat(1, 2)
        /\ \A i \in 1..10 :
              call.pooled.f_bar_dist[i] = IF i <= 5 THEN Rat(18, 25) ELSE Rat(33, 50)
        /\ call.res.f_bar = Rat(69, 100)
        /\ call.res.LB = Rat(33, 50)
        /\ call.res.UB = Rat(18, 25)

C11_Witness ==
    /\ IsScenarioCall
    /\ call.outcome = "returned"
    /\ call.pooled.it1 = 0
    /\ call.pooled.it2 = 1
    /\ Len(call.pooled.f_bar_dist) = 10


\* the quote map without the keys that are no forecaster of the table
KnownOnly(f_dict) ==
    [n \in {n \in DOMAIN f_dict : \E j \in 1..Len(models) : models[j] = n} |-> f_dict[n]]

HasUnknownKey(f_dict) == \E n \in DOMAIN f_dict : \A j \in 1..Len(models) : models[j] # n

\* C12: a key of the quote map that is no known forecaster is ignored: with at
\* least one recognized forecaster in the map, the call raises nothing and
\* returns the estimate and the bounds it returns for the map without that key.
C12_UnknownKeyIgnored ==
    (IsCombine /\ HasUnknownKey(call.f_dict) /\ Recognized(call.f_dict) # {}) =>
        LET without == combine_forecasts(timepoints, models, posterior_dist,
                                         KnownOnly(call.f_dict), call.t, call.alpha,
                                         call.sort_inds)
        IN  /\ call.outcome = "returned"
            /\ call.pooled = pooled(timepoints, models, posterior_dist,
                                    KnownOnly(call.f_dict), call.t)
            /\ call.res.f_bar = without.f_bar
            /\ call.res.LB = without.LB
            /\ call.res.UB = without.UB

C12_Witness ==
    /\ IsCombine
    /\ DOMAIN call.f_dict = {"A", "X"}
    /\ call.outcome = "returned"
    /\ ~IsNaN(call.res.f_bar)
    /\ call.res.f_bar = Quote["A"]


(***************************************************************************)
(* Properties of preprocess_outcome_data.                                  *)
(***************************************************************************)
IsPrep == prep.op = "preprocess_outcome_data"

PrepReturned == IsPrep /\ prep.out.status = "returned"

\* the rows of the table that lie in the bucket of the call, after the lookback
BucketRows == window_rows(prep.out.recent, prep.hours_before)

BucketForecasts == {ForecastKey(BucketRows[i]) : i \in 1..Len(BucketRows)}

Books == {sportsbooks[j] : j \in 1..Len(sportsbooks)}

\* how many rows of the bucket quote forecast k by sportsbook b
PairCount(k, b) ==
    Cardinality({i \in 1..Len(BucketRows) :
                    ForecastKey(BucketRows[i]) = k /\ BucketRows[i].sportsbook_name = b})

\* how many rows of the bucket quote game g by sportsbook b, at any time
GamePairCount(g, b) ==
    Cardinality({i \in 1..Len(BucketRows) :
                    BucketRows[i].game = g /\ BucketRows[i].sportsbook_name = b})

\* returned row i has availability 1 for sportsbook b
Available(i, b) ==
    \E c \in 1..Len(prep.out.included_books) :
        prep.out.included_books[c] = b /\ prep.out.v[i][c] = 1

OutRows == 1..Len(prep.out.v)

HasDuplicate(k) == \E b \in Books : PairCount(k, b) > 1

\* C14 as stated: if a (game, forecaster) pair has more than one reported
\* probability in the lead-time bucket, no returned row of that game has
\* availability 1 for that forecaster.
C14_BucketDuplicateDropped ==
    PrepReturned =>
        \A g \in 1..Len(GameDate), b \in Books :
            GamePairCount(g, b) > 1 =>
                \A i \in OutRows : prep.out.rows[i][2] = g => ~Available(i, b)

\* C14 amended: if a forecaster has more than one reported probability for
\* the same forecast (one game at one observation time), no returned row of
\* that forecast has availability 1 for that forecaster.
C14_ForecastDuplicateDropped ==
    PrepReturned =>
        \A k \in BucketForecasts, b \in Books :
            PairCount(k, b) > 1 =>
                \A i \in OutRows : prep.out.rows[i] = k => ~Available(i, b)

C14_Witness ==
    /\ PrepReturned
    /\ \E k \in BucketForecasts, b \in Books, i \in OutRows :
          /\ PairCount(k, b) > 1
          /\ prep.out.rows[i] = k
          /\ ~Available(i, b)
          /\ \E j \in OutRows : prep.out.rows[j][2] = k[2] /\ Available(j, b)

\* C15 as stated: a forecast holding a duplicated (game, forecaster)
\* observation is no row of the returned arrays.
C15_DuplicatedRowExcluded ==
    PrepReturned =>
        \A k \in BucketForecasts : HasDuplicate(k) => \A i \in OutRows : prep.out.rows[i] # k

\* C15 amended: a forecast holding a duplicated observation is a returned row
\* exactly when two or more forecasters quoted it once, and the duplicated
\* forecaster is then unavailable in it.
C15_DuplicatedRowKeptIffTwoOthers ==
    PrepReturned =>
        \A k \in BucketForecasts :
            HasDuplicate(k) =>
                /\ (\E i \in OutRows : prep.out.rows[i] = k)
                      <=> Cardinality({b \in Books : PairCount(k, b) = 1}) >= 2
                /\ \A i \in OutRows, b \in Books :
                      (prep.out.rows[i] = k /\ PairCount(k, b) > 1) => ~Available(i, b)

C15_Witness ==
    /\ PrepReturned
    /\ \E k \in BucketForecasts, i \in OutRows :
          /\ HasDuplicate(k)
          /\ prep.out.rows[i] = k
          /\ SumInts(prep.out.v[i]) = 2

\* C16: every returned row has at least two available forecasters, a forecast
\* with fewer is no returned row, and the availability matrix, the
\* probability matrix and the outcome vector have the same number of rows.
C16_AtLeastTwoAvailable ==
    PrepReturned =>
        /\ Len(prep.out.f) = Len(prep.out.v)
        /\ Len(prep.out.y) = Len(prep.out.v)
        /\ \A i \in OutRows : SumInts(prep.out.v[i]) >= 2
        /\ \A k \in BucketForecasts :
              Cardinality({b \in Books : PairCount(k, b) = 1}) < 2 =>
                  \A i \in OutRows : prep.out.rows[i] # k

C16_Witness ==
    /\ PrepReturned
    /\ Len(prep.out.v) >= 1
    /\ Len(prep.out.y) = Len(prep.out.v)
    /\ \E k \in BucketForecasts :
          /\ Cardinality({b \in Books : PairCount(k, b) = 1}) = 1
          /\ \A i \in OutRows : prep.out.rows[i] # k

\* C18: the rows that survive the lookback belong to at most n_games distinct
\* games, also when several games share the cutoff date.
C18_AtMostMaxGames ==
    IsPrep =>
        Cardinality({prep.out.recent[i].game : i \in 1..Len(prep.out.recent)}) <= prep.n_games


(***************************************************************************)
(* Properties of the estimation run.                                       *)
(***************************************************************************)
\* a vector of numbers that are nonnegative and sum to 1
OnSimplex(w) ==
    /\ \A j \in 1..Len(w) : ~IsNaN(w[j]) /\ Le(Zero, w[j])
    /\ SumSeq(w) = One

\* C13: every draw of the persisted table, and every draw the combination
\* object holds for any anchor after reading it, has nonnegative entries that
\* sum to 1, also where the tables of the buckets have different columns and
\* the missing cells were filled with 0.
C13_DrawsOnSimplex ==
    /\ weights_df.saved =>
          \A k \in 1..Len(weights_df.rows) : OnSimplex(weights_df.rows[k].w)
    /\ pc = "loaded" =>
          \A a \in 1..Len(posterior_dist) :
              \A d \in 1..Len(posterior_dist[a]) :
                  /\ Len(posterior_dist[a][d]) = Len(models)
                  /\ OnSimplex(posterior_dist[a][d])

C13_Witness ==
    /\ pc = "loaded"
    /\ Len(timepoints) = 2
    /\ Len(models) = 3
    /\ Len(weights_df_list[1].columns) = 2
    /\ \E a \in 1..Len(posterior_dist), j \in 1..Len(models) :
          \A d \in 1..Len(posterior_dist[a]) : posterior_dist[a][d][j] = Zero

\* no forecast of the bucket is quoted once by two or more sportsbooks
ZeroRowsRemain ==
    \A k \in BucketForecasts : Cardinality({b \in Books : PairCount(k, b) = 1}) < 2

\* C17: when zero rows remain after the filtering, preprocessing fails with
\* InsufficientDataError and the estimator is not called (stated for the
\* buckets that hold an observation, where this rests on the mask alone).
C17_EmptyNeverEstimated ==
    (IsPrep /\ BucketRows # <<>> /\ ZeroRowsRemain) =>
        /\ prep.out.status = "InsufficientDataError"
        /\ prep.est = NoEst

\* the estimator returned draws for the bucket of the last pass
HasDraws == IsPrep /\ prep.est.status \in {"converged", "divergent"}

\* f with the cells of unavailable forecasters set to x
WithPlaceholder(f, v, x) ==
    [i \in 1..Len(f) |-> [j \in 1..Len(f[i]) |-> IF v[i][j] = 0 THEN x ELSE f[i][j]]]

\* what each sportsbook quotes in a query
BookQuote == [b \in Books |-> IF b = "A" THEN Rat(1, 4) ELSE IF b = "B" THEN Rat(1, 2) ELSE Rat(3, 4)]

BookQuoteMaps == {[b \in S |-> BookQuote[b]] : S \in SUBSET Books}

\* C19: an unavailable forecaster has availability 0 and the placeholder 0 as
\* probability, and the placeholder never contributes: the training formula at
\* every draw, and the query formula of every anchor, give the same values
\* with another placeholder.
C19_PlaceholderNeverContributes ==
    /\ PrepReturned =>
          \A i \in OutRows : \A j \in 1..Len(prep.out.v[i]) :
              prep.out.v[i][j] = 0 => prep.out.f[i][j] = Zero
    /\ HasDraws =>
          \A d \in 1..Len(prep.est.w_post) :
              prep.est.f_bar[d] =
                  likelihood_f_bar(prep.est.w_post[d], prep.out.v,
                                   WithPlaceholder(prep.out.f, prep.out.v, Rat(1, 2)))
    /\ pc = "loaded" =>
          \A a \in 1..Len(posterior_dist), q \in BookQuoteMaps :
              LET v == quote_v(models, q)
                  f == quote_f(models, q)
              IN  /\ \A j \in 1..Len(v) : v[j] = Zero => f[j] = Zero
                  /\ f_bar_t_dist(posterior_dist[a], v, f) =
                         f_bar_t_dist(posterior_dist[a], v,
                                      [j \in 1..Len(v) |->
                                          IF v[j] = Zero THEN Rat(1, 2) ELSE f[j]])

C19_Witness ==
    /\ HasDraws
    /\ \E i \in OutRows, j \in 1..Len(prep.out.included_books) :
          /\ prep.out.v[i][j] = 0
          /\ \E d \in 1..Len(prep.est.w_post) :
                /\ Lt(Zero, prep.est.w_post[d][j])
                /\ ~IsNaN(prep.est.f_bar[d][i])

\* C20: the persisted weights table holds only draws of runs of the sampler
\* that converged: a bucket whose run reported divergences has no table.
C20_OnlyConvergedPersisted ==
    weights_df.saved =>
        \A k \in 1..Len(weights_df_list) : weights_df_list[k].sampler = "converged"


\* the last pass of the bucket loop ended in an exception
BucketFailed ==
    /\ IsPrep
    /\ prep.out.status # "returned" \/ prep.est.status = "SamplingError"

\* C21: when the estimation of one bucket fails, only that bucket is given up:
\* the loop goes on with the next bucket (and the run with the next league),
\* and what was collected before stays.
C21_FailureAbortsOnlyBucket ==
    BucketFailed =>
        /\ pc # "aborted"
        /\ t_lower = prep.hours_before[2]


\* the rows left by the lookback that come from a listed sportsbook
ListedRows ==
    {i \in 1..Len(prep.out.recent) : prep.out.recent[i].sportsbook_name \in Books}

\* row i of the rows left by the lookback is selected for the bucket of the call
Selected(i) == \E k \in 1..Len(BucketRows) : BucketRows[k] = prep.out.recent[i]

\* C23 as stated: an observation is selected for the bucket [lo, hi) exactly
\* when its lead time h satisfies lo <= h < hi.
C23_WindowClosedAtLo ==
    IsPrep =>
        \A i \in ListedRows :
            Selected(i) <=> /\ prep.hours_before[1] <= prep.out.recent[i].lead
                            /\ prep.out.recent[i].lead < prep.hours_before[2]

\* C23 amended: an observation is selected for the bucket with edges lo < hi
\* exactly when its lead time h satisfies lo < h <= hi: one made exactly hi
\* hours before the start is included, one made exactly lo hours before is not.
C23_WindowClosedAtHi ==
    IsPrep =>
        \A i \in ListedRows :
            Selected(i) <=> /\ prep.hours_before[1] < prep.out.recent[i].lead
                            /\ prep.out.recent[i].lead <= prep.hours_before[2]

C23_Witness ==
    /\ IsPrep
    /\ \E i \in ListedRows : Selected(i) /\ prep.out.recent[i].lead = prep.hours_before[2]
    /\ \E i \in ListedRows : ~Selected(i) /\ prep.out.recent[i].lead > prep.hours_before[2]

\* the bucket edges that two buckets of the grid share
SharedEdges == {t \in arange : t - increment \in arange}

\* the buckets of the grid whose window holds row r
BucketsOf(r) == {t \in arange : in_window(r, hours_before_of(t))}

\* C24: across the grid of adjacent buckets every observation is selected by
\* at most one bucket, and one whose lead time is an edge shared by two
\* buckets by exactly one.
C24_GridSelectsAtMostOnce ==
    IsPrep =>
        /\ \A k \in 1..Len(BucketRows) : BucketsOf(BucketRows[k]) = {prep.hours_before[1]}
        /\ \A i \in ListedRows :
              /\ Cardinality(BucketsOf(prep.out.recent[i])) <= 1
              /\ prep.out.recent[i].lead \in SharedEdges =>
                     Cardinality(BucketsOf(prep.out.recent[i])) = 1

C24_Witness ==
    /\ IsPrep
    /\ \E k \in 1..Len(BucketRows) : BucketRows[k].lead \in SharedEdges
    /\ \E i \in ListedRows : ~Selected(i) /\ Cardinality(BucketsOf(prep.out.recent[i])) = 1


\* the column of name b in the sequence of names cols (0 when it has none)
ColumnOf(cols, b) ==
    IF \E j \in 1..Len(cols) : cols[j] = b
    THEN CHOOSE j \in 1..Len(cols) : cols[j] = b
    ELSE 0

\* C25 as stated: each forecaster has one column index in the arrays and the
\* draws of every bucket and in the vectors built at query time.
C25_OneColumnIndexPerRun ==
    /\ \A k1, k2 \in 1..Len(weights_df_list) :
          \A b \in Books :
              (ColumnOf(weights_df_list[k1].columns, b) # 0
                 /\ ColumnOf(weights_df_list[k2].columns, b) # 0)
              => ColumnOf(weights_df_list[k1].columns, b) =
                     ColumnOf(weights_df_list[k2].columns, b)
    /\ pc = "loaded" =>
          \A k \in 1..Len(weights_df_list) : \A b \in Books :
              ColumnOf(weights_df_list[k].columns, b) # 0 =>
                  ColumnOf(weights_df_list[k].columns, b) = ColumnOf(models, b)

\* C25 amended: within one bucket a forecaster has the same column in the
\* availability matrix, the probability matrix and the draws, the one
\* included_books names (sportsbooks without observation in the bucket have no
\* column); the persisted table joins the draws of the buckets by forecaster
\* name, with 0 where a bucket has no column of that name, and the vectors of
\* a query follow the columns of the persisted table.
C25_ColumnsJoinedByName ==
    /\ PrepReturned =>
          /\ \A i \in OutRows :
                /\ Len(prep.out.v[i]) = Len(prep.out.included_books)
                /\ Len(prep.out.f[i]) = Len(prep.out.included_books)
          /\ \A j1, j2 \in 1..Len(prep.out.included_books) :
                j1 < j2 => sportsbook_index(prep.out.included_books[j1])
                              < sportsbook_index(prep.out.included_books[j2])
    /\ HasDraws =>
          \A d \in 1..Len(prep.est.w_post) :
              Len(prep.est.w_post[d]) = Len(prep.out.included_books)
    /\ weights_df.saved =>
          \A k \in 1..Len(weights_df_list) :
              \A d \in 1..Len(weights_df_list[k].w_post) :
                  \E n \in 1..Len(weights_df.rows) :
                      /\ weights_df.rows[n].t = weights_df_list[k].t
                      /\ weights_df.rows[n].sample = d - 1
                      /\ \A c \in 1..Len(weights_df.columns) :
                            LET j == ColumnOf(weights_df_list[k].columns, weights_df.columns[c])
                            IN  weights_df.rows[n].w[c] =
                                    IF j = 0 THEN Zero ELSE weights_df_list[k].w_post[d][j]
    /\ pc = "loaded" =>
          /\ models = weights_df.columns
          /\ \A q \in BookQuoteMaps : \A c \in 1..Len(models) :
                /\ quote_v(models, q)[c] = One <=> models[c] \in DOMAIN q
                /\ models[c] \in DOMAIN q => quote_f(models, q)[c] = q[models[c]]

C25_Witness ==
    /\ pc = "loaded"
    /\ \E k1, k2 \in 1..Len(weights_df_list) : \E b \in Books :
          /\ ColumnOf(weights_df_list[k1].columns, b) # 0
          /\ ColumnOf(weights_df_list[k2].columns, b) # 0
          /\ ColumnOf(weights_df_list[k1].columns, b) # ColumnOf(weights_df_list[k2].columns, b)
          /\ ColumnOf(weights_df_list[k2].columns, b) # ColumnOf(models, b)


\* C28: the outcome vector is as long as the matrices, and its entry i is the
\* outcome of the game of row i of the matrices.
C28_OutcomeOfSameGame ==
    PrepReturned =>
        /\ Len(prep.out.y) = Len(prep.out.v)
        /\ Len(prep.out.y) = Len(prep.out.f)
        /\ \A i \in OutRows : prep.out.y[i] = GameOutcome[prep.out.rows[i][2]]

\* the outcome vector is as long as the matrices
C28_SameLength ==
    PrepReturned =>
        /\ Len(prep.out.y) = Len(prep.out.v)
        /\ Len(prep.out.y) = Len(prep.out.f)


\* the orders of n draws
Perms(n) == {p \in [1..n -> 1..n] : \A i, j \in 1..n : p[i] = p[j] => i = j}

\* the ensembles of post with the draws of each ensemble in any order
RECURSIVE PermutedEnsembles(_)
PermutedEnsembles(post) ==
    IF post = <<>> THEN {<<>>}
    ELSE {<<Take(post[1], p)>> \o rest :
             p \in Perms(Len(post[1])), rest \in PermutedEnsembles(Tail(post))}

\* what the call in progress may return when the ensembles are post
ResultsOn(post) ==
    LET p == pooled(timepoints, models, post, call.f_dict, call.t)
    IN  {combine_sorted(p, call.alpha, sort_inds) :
            sort_inds \in ArgSorts(p.f_bar_dist, p.sample_weights)}

\* C27: a call of combine_forecasts returns the same point estimate and the
\* same bounds whatever the order of the draws inside each ensemble.
C27_DrawOrderIrrelevant ==
    (IsCombine /\ AllNumbers) =>
        \A post \in PermutedEnsembles(posterior_dist) :
            \A r \in ResultsOn(post) :
                /\ r.f_bar = call.res.f_bar
                /\ r.LB = call.res.LB
                /\ r.UB = call.res.UB

\* the point estimate does not depend on the order of the draws
C27_EstimateOrderFree ==
    (IsCombine /\ AllNumbers) =>
        \A post \in PermutedEnsembles(posterior_dist) :
            \A r \in ResultsOn(post) : r.f_bar = call.res.f_bar

\* two pooled samples of the call tie in value and differ in mass
CrossTie ==
    \E i, j \in 1..Len(call.pooled.f_bar_dist) :
        /\ call.pooled.f_bar_dist[i] = call.pooled.f_bar_dist[j]
        /\ call.pooled.sample_weights[i] # call.pooled.sample_weights[j]

\* without such a tie the bounds do not depend on the order of the draws
C27_OrderFreeWithoutCrossTie ==
    (IsCombine /\ AllNumbers /\ ~CrossTie) => C27_DrawOrderIrrelevant


\* every finished query of a thread holds what the method returns when it
\* runs alone on the object
QueriesIsolated ==
    \A th \in Threads :
        queries[th].pc = "done" =>
            IF queries[th].op = "get_timepoint_weights"
            THEN queries[th].res = get_timepoint_weights(timepoints, queries[th].t)
            ELSE LET r == combine_forecasts(timepoints, models, posterior_dist,
                                            queries[th].f_dict, queries[th].t,
                                            queries[th].alpha, queries[th].sort_inds)
                 IN  /\ queries[th].res.f_bar = r.f_bar
                     /\ queries[th].res.LB = r.LB
                     /\ queries[th].res.UB = r.UB

\* C26: no step of a query changes the anchors, the forecaster list or an
\* ensemble, and every query interleaved with another returns what it
\* returns alone.
C26_QueriesReadOnly ==
    /\ []QueriesIsolated
    /\ [][UNCHANGED <<timepoints, models, posterior_dist>>]_vars

\* one thread has finished a combine call that pooled its samples after the
\* other thread, with another quote map, had pooled and before it finished
C26_Witness ==
    /\ queries["t1"].pc = "done" /\ queries["t1"].op = "combine_forecasts"
    /\ queries["t2"].pc = "pooled"
    /\ queries["t1"].f_dict # queries["t2"].f_dict
    /\ queries["t1"].t = queries["t2"].t


\* the live script has taken the game ids and is in or past the game loop
LiveLooping == live.pc \in {"loop", "IndexError", "ValueError", "saved"}

\* the lines of the i-th combined game and the estimate they were built from
LinesOf(i) == live.roi_df_list[i]

EstimateOf(i) == live.roi_json_data[i].home_win_prob

\* C22: every line's expected return is hit_prob * odds - 1; the hit
\* probability is the game's combined estimate on the home side and one minus
\* it on the away side, so that the two sides of a game sum to 1.
C22_ExpectedReturn ==
    LiveLooping =>
        \A i \in 1..Len(live.roi_df_list) :
            \A n \in 1..Len(LinesOf(i)) :
                LET row == LinesOf(i)[n]
                IN  /\ row.EROI = Sub(Mul(row.hit_prob, row.odds), One)
                    /\ row.side = "home" => row.hit_prob = EstimateOf(i)
                    /\ row.side = "away" => row.hit_prob = Sub(One, EstimateOf(i))
                    /\ \A n2 \in 1..Len(LinesOf(i)) :
                           LinesOf(i)[n2].side # row.side =>
                               Add(row.hit_prob, LinesOf(i)[n2].hit_prob) = One

\* the same for the games whose combined estimate is a number
NumbersExpectedReturn ==
    LiveLooping =>
        \A i \in 1..Len(live.roi_df_list) :
            ~IsNaN(EstimateOf(i)) =>
                \A n \in 1..Len(LinesOf(i)) :
                    LET row == LinesOf(i)[n]
                    IN  /\ row.EROI = Sub(Mul(row.hit_prob, row.odds), One)
                        /\ row.side = "home" => row.hit_prob = EstimateOf(i)
                        /\ row.side = "away" => row.hit_prob = Sub(One, EstimateOf(i))
                        /\ \A n2 \in 1..Len(LinesOf(i)) :
                               LinesOf(i)[n2].side # row.side =>
                                   Add(row.hit_prob, LinesOf(i)[n2].hit_prob) = One

\* some game with a numeric estimate and lines of two sportsbooks was combined
NumbersExpectedReturnReached ==
    /\ LiveLooping
    /\ \E i \in 1..Len(live.roi_df_list) :
          ~IsNaN(EstimateOf(i)) /\ Len(LinesOf(i)) >= 4

\* C29: every game the loop iterates has a quote row left after the
\* duplicated lines were dropped, and the loop never queries a game without
\* rows.
C29_IteratedGameHasRows ==
    LiveLooping =>
        /\ \A i \in 1..Len(live.game_ids) :
              game_rows(live.prob_df, live.game_ids[i]) # <<>>
        /\ live.pc # "IndexError"


\* C30: the scores collected for a date come from a response to the request
\* of that date.
C30_ScoresFromOwnResponse ==
    scrape.pc # "none" =>
        \A i \in 1..Len(scrape.df_list) :
            scrape.df_list[i].parsed_from = scrape.df_list[i].for_date

\* the scores of one response are never collected twice
C30_NoResponseParsedTwice ==
    scrape.pc # "none" =>
        \A i, j \in 1..Len(scrape.df_list) :
            scrape.df_list[i].parsed_from = scrape.df_list[j].parsed_from => i = j

====
